---- MODULE Spec2Model ----
(***************************************************************************)
(* Smart Heating: the heating decision engine.                             *)
(*                                                                         *)
(* Temperatures are integers in tenths of a degree Celsius (20.0 -> 200).  *)
(* A datetime is the number of minutes since Monday 00:00 of week 0; a     *)
(* time-of-day string "HH:MM" is the pair <<HH, MM>>.  An optional value   *)
(* (Python None) is the empty sequence, a present value v is <<v>>.        *)
(***************************************************************************)
EXTENDS Integers, Sequences, FiniteSets, TLC

VARIABLES
    tArea,      \* SpecTarget: the Area whose effective target is evaluated
    tTime,      \* SpecTarget: the current_time argument (= datetime.now())
    tResult,    \* SpecTarget: the value returned, None before the call
    tBefore,    \* SpecTarget: the Area as it was when the call started
    fSchedules, \* SpecSchedule: area.schedules, in dict order
    fCall,      \* SpecSchedule: the last _find_active_schedule call and its result
    dTasks,     \* SpecDebounce: the debounced_temp_update tasks, in creation order
    dDebounce,  \* SpecDebounce: coordinator._debounce_tasks (entity id -> task)
    dAreas,     \* SpecDebounce: target_temperature / manual_override of each area
    dBurst,     \* SpecDebounce: per entity id, the current burst of notifications
    dSaved,     \* SpecDebounce: the areas last handed to the store by async_save
    dShutdown,  \* SpecDebounce: None while the state listener is subscribed,
                \* after async_shutdown the areas as they were when it ran
    areas,      \* Spec: area_manager.areas
    mgr,        \* Spec, SpecZone: the AreaManager's global configuration and
                \* the controller's _hysteresis
    now,        \* Spec, SpecZone: the wall clock, datetime.now()
    passes,     \* Spec: the running async_control_heating calls, by caller
    calls,      \* Spec: what the callers have done so far (budgets)
    lastPass,   \* Spec: how the pass that ended last ended
    zArea,      \* SpecZone: the Area one iteration of the per-area loop handles
    lastStep,   \* SpecZone: what that iteration saw and did, None before it
    zTracked,   \* SpecZone: area_id in ClimateController._area_heating_events
    zEvent,     \* SpecZone: LearningEngine._active_heating_events.get(area_id)
    eArea,      \* SpecEngine: the Area the schedule executor's tick handles
    eLast,      \* SpecEngine: _last_applied_schedule.get(area_id)
    eNow,       \* SpecEngine: datetime.now() of the latest tick
    eTick,      \* SpecEngine: what the latest tick found and did, None before it
    pStats,     \* SpecPredict: the rows of the area's heating_rate statistic
    pCall,      \* SpecPredict: the last async_predict_heating_time call
    oStates,    \* SpecOverride: hass.states of the area's devices
    oTimers,    \* SpecOverride: the pending debounce task of each device, if any
    oLast,      \* SpecOverride: what the latest step did, None before it
    oHuman,     \* SpecOverride: some target temperature was changed from outside
    aStates,    \* SpecActuate: hass.states of the valve entities;
                \* SpecWindow: hass.states of the window sensor entities
    aCaps,      \* SpecActuate: ClimateController._device_capabilities
    aPass       \* SpecActuate: the service calls of the latest pass, None before it

targetVars == <<tArea, tTime, tResult, tBefore>>
scheduleVars == <<fSchedules, fCall>>
debounceVars == <<dTasks, dDebounce, dAreas, dBurst, dSaved, dShutdown>>

loopVars == <<areas, mgr, now, passes, calls, lastPass>>
zoneVars == <<zArea, lastStep, zTracked, zEvent>>
engineVars == <<eArea, eLast, eNow, eTick>>
predictVars == <<pStats, pCall>>
overrideVars == <<oStates, oTimers, oLast, oHuman>>
actuateVars == <<aStates, aCaps, aPass>>
otherThanDebounce == <<targetVars, scheduleVars, loopVars, zoneVars, engineVars, predictVars, overrideVars, actuateVars>>
otherThanLoop == <<targetVars, scheduleVars, debounceVars, zoneVars, engineVars, predictVars, overrideVars, actuateVars>>

vars == <<tArea, tTime, tResult, tBefore, fSchedules, fCall,
          dTasks, dDebounce, dAreas, dBurst, dSaved, dShutdown,
          areas, mgr, now, passes, calls, lastPass,
          zArea, lastStep, zTracked, zEvent,
          eArea, eLast, eNow, eTick, pStats, pCall,
          oStates, oTimers, oLast, oHuman, aStates, aCaps, aPass>>

----------------------------------------------------------------------------
(* Optional values and time helpers *)

None == <<>>
Some(v) == <<v>>
Val(o) == o[1]

Max(a, b) == IF a >= b THEN a ELSE b

\* datetime(weekday d, h:m)
At(d, h, m) == d * 1440 + h * 60 + m
\* datetime.weekday(): 0 = Monday
Weekday(t) == (t \div 1440) % 7
\* datetime.time(), in minutes since midnight
MinuteOfDay(t) == t % 1440
\* map(int, "HH:MM".split(':')) folded into hour * 60 + minute
ToMinutes(hm) == hm[1] * 60 + hm[2]

----------------------------------------------------------------------------
(* Program constants *)

DEFAULT_WINDOW_OPEN_TEMP_DROP == 50
DEFAULT_FROST_PROTECTION_TEMP == 70
DEFAULT_AWAY_TEMP == 160
DEFAULT_ECO_TEMP == 180
DEFAULT_COMFORT_TEMP == 220
DEFAULT_HOME_TEMP == 200
DEFAULT_SLEEP_TEMP == 185
DEFAULT_ACTIVITY_TEMP == 210
\* the literal 5.0 of the window-open rule
WindowOpenFloor == 50
DEFAULT_NIGHT_BOOST_START_TIME == <<22, 0>>
DEFAULT_NIGHT_BOOST_END_TIME == <<6, 0>>

PresetNames == {"away", "eco", "comfort", "home", "sleep", "activity"}

\* AreaManager.global_*_temp as set by AreaManager.__init__
GlobalPresetTemps ==
    [p \in PresetNames |->
        CASE p = "away" -> DEFAULT_AWAY_TEMP
          [] p = "eco" -> DEFAULT_ECO_TEMP
          [] p = "comfort" -> DEFAULT_COMFORT_TEMP
          [] p = "home" -> DEFAULT_HOME_TEMP
          [] p = "sleep" -> DEFAULT_SLEEP_TEMP
          [] OTHER -> DEFAULT_ACTIVITY_TEMP]

----------------------------------------------------------------------------
(* ZoneModel: Schedule and Area (area_manager.py) *)

\* Schedule.__init__ called with day, start_time and end_time (the API's format):
\* time = start_time, days = [day_map[day]].
Schedule(id, day, start, end, enabled, temperature, preset) ==
    [schedule_id |-> id, day |-> day, days |-> {day}, time |-> start,
     start_time |-> start, end_time |-> end, enabled |-> enabled,
     temperature |-> temperature, preset_mode |-> preset]

\* Schedule.is_active
ScheduleIsActive(s, current_time) ==
    /\ s.enabled
    /\ Weekday(current_time) \in s.days
    /\ MinuteOfDay(current_time) >= ToMinutes(s.time)

\* Area.get_active_schedule_temperature: the active schedules sorted by their
\* time string, descending (a stable sort), and the first one's temperature.
GetActiveScheduleTemperature(a, current_time) ==
    LET active == {i \in 1..Len(a.schedules) :
                      ScheduleIsActive(a.schedules[i], current_time)}
        latest == {i \in active : \A j \in active :
                      ToMinutes(a.schedules[i].time) >= ToMinutes(a.schedules[j].time)}
        first == CHOOSE i \in latest : \A j \in latest : i <= j
    IN IF active = {} THEN None ELSE a.schedules[first].temperature

\* Area.get_preset_temperature
GetPresetTemperature(a) ==
    IF a.preset_mode \in PresetNames
    THEN IF a.use_global[a.preset_mode]
         THEN GlobalPresetTemps[a.preset_mode]
         ELSE a.preset_temps[a.preset_mode]
    ELSE IF a.preset_mode = "boost" THEN a.boost_temp
    ELSE a.target_temperature

\* Area.cancel_boost_mode
CancelBoostMode(a) ==
    IF a.boost_mode_active
    THEN [a EXCEPT !.boost_mode_active = FALSE,
                   !.boost_end_time = None,
                   !.preset_mode = "none"]
    ELSE a

\* Area.check_boost_expiry(): compares datetime.now() with boost_end_time
CheckBoostExpiry(a, wall) ==
    IF a.boost_mode_active /\ a.boost_end_time # None
       /\ wall >= Val(a.boost_end_time)
    THEN CancelBoostMode(a)
    ELSE a

\* Area.set_boost_mode(duration, temp)
SetBoostMode(a, duration, temp, wall) ==
    [a EXCEPT !.boost_mode_active = TRUE,
              !.boost_duration = duration,
              !.boost_temp = IF temp # None THEN Val(temp) ELSE @,
              !.boost_end_time = Some(wall + duration),
              !.preset_mode = "boost"]

\* WindowActionTarget without the 5.0 floor on the reduced temperature
WindowActionTarget_NoFloor(a) ==
    LET acting == {i \in 1..Len(a.window_sensors) :
                      a.window_sensors[i].action_when_open
                          \in {"turn_off", "reduce_temperature"}}
        i == CHOOSE k \in acting : \A j \in acting : k <= j
        s == a.window_sensors[i]
        temp_drop == IF s.temp_drop # None THEN Val(s.temp_drop)
                     ELSE DEFAULT_WINDOW_OPEN_TEMP_DROP
    IN IF ~a.window_is_open \/ acting = {} THEN None
       ELSE IF s.action_when_open = "turn_off" THEN Some(WindowOpenFloor)
       ELSE Some(a.target_temperature - temp_drop)

\* The window-open rule of get_effective_target_temperature: the first sensor of
\* the list whose action is turn_off or reduce_temperature decides.
WindowActionTarget(a) ==
    LET acting == {i \in 1..Len(a.window_sensors) :
                      a.window_sensors[i].action_when_open
                          \in {"turn_off", "reduce_temperature"}}
        i == CHOOSE k \in acting : \A j \in acting : k <= j
        s == a.window_sensors[i]
        temp_drop == IF s.temp_drop # None THEN Val(s.temp_drop)
                     ELSE DEFAULT_WINDOW_OPEN_TEMP_DROP
    IN IF ~a.window_is_open \/ acting = {} THEN None
       ELSE IF s.action_when_open = "turn_off" THEN Some(WindowOpenFloor)
       ELSE Some(Max(WindowOpenFloor, a.target_temperature - temp_drop))

\* The night-boost period test of get_effective_target_temperature
NightBoostPeriodActive(a, current_time) ==
    LET start_minutes == ToMinutes(a.night_boost_start_time)
        end_minutes == ToMinutes(a.night_boost_end_time)
        current_minutes == MinuteOfDay(current_time)
    IN IF start_minutes <= end_minutes
       THEN start_minutes <= current_minutes /\ current_minutes < end_minutes
       ELSE current_minutes >= start_minutes \/ current_minutes < end_minutes

\* EffectiveTarget with the window rule tested before boost mode
EffectiveTarget_WindowFirst(a0, current_time, wall) ==
    LET a == CheckBoostExpiry(a0, wall)
        window == WindowActionTarget(a)
    IN [area |-> a,
        target |-> IF window # None THEN Val(window)
                   ELSE IF a.boost_mode_active THEN a.boost_temp
                   ELSE a.target_temperature]

\* Area.get_effective_target_temperature(current_time), called at wall-clock
\* time `wall`: the Area after the call and the value returned.
EffectiveTarget(a0, current_time, wall) ==
    LET a == CheckBoostExpiry(a0, wall)
        window == WindowActionTarget(a)
        sched == GetActiveScheduleTemperature(a, current_time)
        base == IF a.preset_mode # "none" /\ a.preset_mode # "boost"
                THEN GetPresetTemperature(a)
                ELSE IF sched = None THEN a.target_temperature ELSE Val(sched)
        in_schedule == sched # None
        boosted == IF a.night_boost_enabled
                      /\ NightBoostPeriodActive(a, current_time) /\ ~in_schedule
                   THEN base + a.night_boost_offset
                   ELSE base
    IN [area |-> a,
        target |-> IF a.boost_mode_active THEN a.boost_temp
                   ELSE IF window # None THEN Val(window)
                   ELSE boosted]

\* Area.__init__ defaults (boost_duration 60, boost_temp 25.0), with the fields
\* the model varies as parameters; boost = <<boost_mode_active, boost_end_time>>
NewArea(target, preset, boost, windowOpen, windowSensors, schedules, nightBoost) ==
    [target_temperature |-> target,
     enabled |-> TRUE,
     hvac_mode |-> "heat",
     current_temperature |-> None,
     state |-> None,
     manual_override |-> FALSE,
     preset_mode |-> preset,
     preset_temps |-> GlobalPresetTemps,
     use_global |-> [p \in PresetNames |-> TRUE],
     boost_mode_active |-> boost[1],
     boost_duration |-> 60,
     boost_temp |-> 250,
     boost_end_time |-> boost[2],
     window_sensors |-> windowSensors,
     window_is_open |-> windowOpen,
     schedules |-> schedules,
     night_boost_enabled |-> nightBoost,
     night_boost_offset |-> 5,
     night_boost_start_time |-> DEFAULT_NIGHT_BOOST_START_TIME,
     night_boost_end_time |-> DEFAULT_NIGHT_BOOST_END_TIME,
     smart_night_boost_enabled |-> FALSE,
     smart_night_boost_target_time |-> <<6, 0>>,
     shutdown_switches_when_idle |-> TRUE]

----------------------------------------------------------------------------
(* SpecTarget: get_effective_target_temperature on bounded inputs *)

MaxWindowSensors == 2

\* Mon 12:00, Mon 23:30, Tue 02:00, Tue 07:00
TimePoints == {At(0, 12, 0), At(0, 23, 30), At(1, 2, 0), At(1, 7, 0)}

WindowSensorConfigs ==
    {[action_when_open |-> "turn_off", temp_drop |-> None],
     [action_when_open |-> "reduce_temperature", temp_drop |-> Some(30)],
     [action_when_open |-> "reduce_temperature", temp_drop |-> None],
     [action_when_open |-> "none", temp_drop |-> None]}

WindowSensorLists ==
    UNION {[1..n -> WindowSensorConfigs] : n \in 0..MaxWindowSensors}

\* Mon 22:00-06:00 @ 18.0 (crosses midnight), Mon 08:00-22:00 @ preset eco and
\* Mon 22:00-06:00 @ preset sleep
ScheduleLists ==
    {<<>>,
     <<Schedule("s3", 0, <<22, 0>>, <<6, 0>>, TRUE, None, Some("sleep"))>>,
     <<Schedule("s1", 0, <<22, 0>>, <<6, 0>>, TRUE, Some(180), None)>>,
     <<Schedule("s2", 0, <<8, 0>>, <<22, 0>>, TRUE, None, Some("eco"))>>,
     <<Schedule("s1", 0, <<22, 0>>, <<6, 0>>, TRUE, Some(180), None),
       Schedule("s2", 0, <<8, 0>>, <<22, 0>>, TRUE, None, Some("eco"))>>}

\* boost inactive; active without an end time; active and ending Mon 13:00;
\* active and ending Tue 03:00
BoostStates ==
    {<<FALSE, None>>, <<TRUE, None>>,
     <<TRUE, Some(At(0, 13, 0))>>, <<TRUE, Some(At(1, 3, 0))>>}

TargetAreas ==
    {NewArea(t, p, b, w, ws, sc, nb) :
        t \in {70, 200}, p \in {"none", "eco", "boost"}, b \in BoostStates,
        w \in BOOLEAN, ws \in WindowSensorLists, sc \in ScheduleLists,
        nb \in BOOLEAN}

\* The variables of the override detector when it is not part of a specification
DebounceIdle ==
    /\ dTasks = <<>> /\ dDebounce = None /\ dAreas = None /\ dBurst = None
    /\ dSaved = None /\ dShutdown = None

\* The variables of the control loop when it is not part of a specification
LoopIdle ==
    /\ areas = None /\ mgr = None /\ now = 0 /\ passes = None /\ calls = None
    /\ lastPass = None
    /\ zArea = None /\ lastStep = None /\ zTracked = FALSE /\ zEvent = None

\* The variables of the schedule executor when it is not part of a specification
EngineIdle ==
    eArea = None /\ eLast = None /\ eNow = 0 /\ eTick = None

\* The variables of the learning engine's prediction when it is not part of a
\* specification
PredictIdle ==
    pStats = <<>> /\ pCall = None

\* The device states and debounce tasks when they are not part of a
\* specification
OverrideIdle ==
    oStates = None /\ oTimers = None /\ oLast = None /\ oHuman = FALSE

\* The valve entities and the capability cache when they are not part of a
\* specification
ActuateIdle ==
    aStates = None /\ aCaps = None /\ aPass = None

TargetInit ==
    /\ fSchedules = <<>> /\ fCall = None
    /\ DebounceIdle /\ LoopIdle /\ EngineIdle /\ PredictIdle /\ OverrideIdle /\ ActuateIdle
    /\ tArea \in TargetAreas
    /\ tTime \in TimePoints
    /\ tResult = None
    /\ tBefore = tArea

\* One call of area.get_effective_target_temperature(datetime.now())
EvalTarget ==
    /\ tResult = None
    /\ LET r == EffectiveTarget(tArea, tTime, tTime)
       IN /\ tArea' = r.area
          /\ tResult' = Some(r.target)
    /\ UNCHANGED <<tTime, tBefore, scheduleVars, debounceVars, loopVars, zoneVars,
                   engineVars, predictVars, overrideVars, actuateVars>>

TargetNext == EvalTarget

SpecTarget == TargetInit /\ [][TargetNext]_vars

\* C2: once get_effective_target_temperature has returned for a zone that had
\* boost mode active with no end time or with an end time after now, the value
\* returned is the boost temperature, whatever the window state, the window
\* sensors, the preset mode, the schedules, the base target and night boost are.
Thm_C2_BoostWins ==
    (/\ tResult # None
     /\ tBefore.boost_mode_active
     /\ (tBefore.boost_end_time = None \/ tTime < Val(tBefore.boost_end_time)))
    => Val(tResult) = tBefore.boost_temp

\* Boost is active until Tue 03:00, evaluated Mon 23:30 with an open window whose
\* sensor says turn_off, preset eco, two schedules and night boost enabled.
Wit_C2_BoostWins ==
    /\ tResult = Some(250)
    /\ tBefore.boost_mode_active
    /\ tBefore.boost_end_time = Some(At(1, 3, 0))
    /\ tTime = At(0, 23, 30)
    /\ tBefore.window_is_open
    /\ Len(tBefore.window_sensors) = 1
    /\ tBefore.window_sensors[1].action_when_open = "turn_off"
    /\ tBefore.preset_mode = "eco"
    /\ Len(tBefore.schedules) = 2
    /\ tBefore.night_boost_enabled

\* The sensor that decides the window rule: the first one of the list with an
\* action other than none.
DecidingSensors(a) ==
    {i \in 1..Len(a.window_sensors) :
        /\ a.window_sensors[i].action_when_open # "none"
        /\ \A j \in 1..(i - 1) : a.window_sensors[j].action_when_open = "none"}

\* C10: after a call that leaves boost inactive, with the window reported open,
\* the value returned is max(5.0, base target - drop) when the deciding window
\* sensor says reduce_temperature (drop = its temp_drop, 5.0 when it has none)
\* and 5.0 when it says turn_off, whatever the preset mode, the schedules and
\* night boost are.
Thm_C10_WindowOpen ==
    (tResult # None /\ ~tArea.boost_mode_active /\ tArea.window_is_open)
    => \A i \in DecidingSensors(tArea) :
          LET s == tArea.window_sensors[i]
              d == IF s.temp_drop # None THEN Val(s.temp_drop)
                   ELSE DEFAULT_WINDOW_OPEN_TEMP_DROP
          IN /\ s.action_when_open = "reduce_temperature"
                => /\ Val(tResult) = Max(50, tArea.target_temperature - d)
                   /\ Val(tResult) >= 50
             /\ s.action_when_open = "turn_off" => Val(tResult) = 50

\* Base 20.0 and drop 3.0 give 17.0 with preset eco, two schedules (one of them
\* active Mon 23:30) and night boost enabled inside its period.
Wit_C10_WindowOpen ==
    /\ tResult = Some(170)
    /\ ~tBefore.boost_mode_active
    /\ tArea.window_is_open
    /\ Len(tArea.window_sensors) = 1
    /\ tArea.window_sensors[1] =
          [action_when_open |-> "reduce_temperature", temp_drop |-> Some(30)]
    /\ tArea.target_temperature = 200
    /\ tArea.preset_mode = "eco"
    /\ Len(tArea.schedules) = 2
    /\ tArea.night_boost_enabled
    /\ tTime = At(0, 23, 30)

----------------------------------------------------------------------------
(* ScheduleEngine: ScheduleExecutor._find_active_schedule (scheduler.py) *)

\* The current-day test without the branch for windows that cross midnight
TodayMatches_NoMidnight(s, current_day, current_time) ==
    /\ s.day = current_day
    /\ ToMinutes(s.start_time) <= current_time
    /\ current_time < ToMinutes(s.end_time)

\* First loop: a schedule of the current day whose window holds current_time
TodayMatches(s, current_day, current_time) ==
    /\ s.day = current_day
    /\ IF ToMinutes(s.start_time) <= ToMinutes(s.end_time)
       THEN /\ ToMinutes(s.start_time) <= current_time
            /\ current_time < ToMinutes(s.end_time)
       ELSE current_time >= ToMinutes(s.start_time)

\* Second loop: a schedule of the previous day that extends into today
YesterdayMatches(s, current_day, current_time) ==
    /\ s.day = (current_day + 6) % 7
    /\ ToMinutes(s.start_time) > ToMinutes(s.end_time)
    /\ current_time < ToMinutes(s.end_time)

\* _find_active_schedule(schedules, current_day, current_time): the position in
\* dict order of the schedule returned, or None
FindActiveSchedule(schedules, current_day, current_time) ==
    LET today == {i \in 1..Len(schedules) :
                     TodayMatches(schedules[i], current_day, current_time)}
        yesterday == {i \in 1..Len(schedules) :
                     YesterdayMatches(schedules[i], current_day, current_time)}
    IN IF today # {} THEN Some(CHOOSE i \in today : \A j \in today : i <= j)
       ELSE IF yesterday # {}
            THEN Some(CHOOSE i \in yesterday : \A j \in yesterday : i <= j)
       ELSE None

MaxSchedules == 2

\* Mon 22:00-06:00, Mon 08:00-22:00, Mon 08:00-08:00, Sun 22:00-06:00,
\* Tue 06:00-08:00 (disabled), Wed 22:00-08:00 @ preset sleep
ScheduleConfigs ==
    {Schedule("a", 0, <<22, 0>>, <<6, 0>>, TRUE, Some(180), None),
     Schedule("b", 0, <<8, 0>>, <<22, 0>>, TRUE, Some(210), None),
     Schedule("c", 0, <<8, 0>>, <<8, 0>>, TRUE, Some(190), None),
     Schedule("d", 6, <<22, 0>>, <<6, 0>>, TRUE, Some(170), None),
     Schedule("e", 1, <<6, 0>>, <<8, 0>>, FALSE, Some(200), None),
     Schedule("f", 2, <<22, 0>>, <<8, 0>>, TRUE, None, Some("sleep"))}

\* area.schedules: a dict keyed by schedule id, so no id occurs twice
ScheduleDicts ==
    UNION {{q \in [1..n -> ScheduleConfigs] :
               \A i, j \in 1..n : i # j => q[i].schedule_id # q[j].schedule_id} :
           n \in 1..MaxSchedules}

\* 02:00, 06:00, 07:00, 08:00, 09:00, 22:00, 23:30
TimesOfDay == {120, 360, 420, 480, 540, 1320, 1410}

ScheduleInit ==
    /\ fSchedules \in ScheduleDicts
    /\ fCall = None
    /\ tArea = None /\ tTime = 0 /\ tResult = None /\ tBefore = None
    /\ DebounceIdle /\ LoopIdle /\ EngineIdle /\ PredictIdle /\ OverrideIdle /\ ActuateIdle

\* One call of _find_active_schedule(area.schedules, current_day, current_time)
FindActive ==
    /\ \E d \in 0..6, t \in TimesOfDay :
          fCall' = Some([day |-> d, time |-> t,
                         result |-> FindActiveSchedule(fSchedules, d, t)])
    /\ UNCHANGED <<fSchedules, targetVars, debounceVars, loopVars, zoneVars,
                   engineVars, predictVars, overrideVars, actuateVars>>

ScheduleNext == FindActive

SpecSchedule == ScheduleInit /\ [][ScheduleNext]_vars

\* The window of schedule s holds (weekday d, time t): start <= t < end on s.day
\* when start < end; t >= start on s.day or t < end on the next day when
\* end < start; never when start = end.
InWindow(s, d, t) ==
    LET start == ToMinutes(s.start_time)
        end == ToMinutes(s.end_time)
    IN \/ start < end /\ d = s.day /\ start <= t /\ t < end
       \/ end < start /\ \/ d = s.day /\ t >= start
                         \/ d = (s.day + 1) % 7 /\ t < end

\* The window as the claim has it: end <= start crosses midnight
InWindowClaimed(s, d, t) ==
    LET start == ToMinutes(s.start_time)
        end == ToMinutes(s.end_time)
    IN \/ start < end /\ d = s.day /\ start <= t /\ t < end
       \/ end <= start /\ \/ d = s.day /\ t >= start
                          \/ d = (s.day + 1) % 7 /\ t < end

\* C4 (amended): _find_active_schedule returns a schedule only at a weekday and
\* time inside that schedule's window, and returns none only when no schedule's
\* window holds that weekday and time; a window with start < end is
\* [start, end) on its day, one with end < start is [start, 24:00) on its day
\* and [00:00, end) on the next, and one with start = end is empty.
Thm_C4_ActiveWindow ==
    fCall # None =>
        LET c == Val(fCall)
        IN /\ c.result # None => InWindow(fSchedules[Val(c.result)], c.day, c.time)
           /\ c.result = None =>
                 \A i \in 1..Len(fSchedules) : ~InWindow(fSchedules[i], c.day, c.time)

\* Mon 22:00-06:00 is returned for Tuesday 02:00.
Wit_C4_ActiveWindow ==
    /\ fCall # None
    /\ Len(fSchedules) = 1
    /\ fSchedules[1].schedule_id = "a"
    /\ Val(fCall).day = 1 /\ Val(fCall).time = 120
    /\ Val(fCall).result = Some(1)

\* C4 as claimed: the same with every end <= start window crossing midnight.
Cex_C4_EndEqualsStart ==
    fCall # None =>
        LET c == Val(fCall)
        IN /\ c.result # None
                 => InWindowClaimed(fSchedules[Val(c.result)], c.day, c.time)
           /\ c.result = None =>
                 \A i \in 1..Len(fSchedules) :
                    ~InWindowClaimed(fSchedules[i], c.day, c.time)

\* The schedules of area a whose window holds current_time
SchedulesInWindow(a, current_time) ==
    {i \in 1..Len(a.schedules) :
        /\ a.schedules[i].enabled
        /\ InWindow(a.schedules[i], Weekday(current_time), MinuteOfDay(current_time))}

\* What get_effective_target_temperature returns for the same area with night
\* boost disabled
WithoutNightBoost(a, current_time) ==
    EffectiveTarget([a EXCEPT !.night_boost_enabled = FALSE],
                    current_time, current_time).target

\* C11: when the value returned contains the night-boost offset (it differs from
\* the value returned with night boost disabled), night boost is enabled, now is
\* in the night-boost window, boost mode is not active and no enabled schedule's
\* window holds now.
Cex_C11_NightBoostOutsideSchedules ==
    (/\ tResult # None
     /\ Val(tResult) # WithoutNightBoost(tBefore, tTime))
    => /\ tBefore.night_boost_enabled
       /\ NightBoostPeriodActive(tBefore, tTime)
       /\ ~tArea.boost_mode_active
       /\ SchedulesInWindow(tBefore, tTime) = {}

\* The temperature a schedule stands for: its literal temperature, or the
\* temperature of the preset it references
ScheduleValue(a, s) ==
    IF s.temperature # None THEN Val(s.temperature)
    ELSE GetPresetTemperature([a EXCEPT !.preset_mode = Val(s.preset_mode)])

\* C12: with boost inactive, no window action, preset mode none (and night boost
\* disabled), when some enabled schedule's window holds now the value returned is
\* the temperature such a schedule stands for.
Cex_C12_ScheduleResolves ==
    (/\ tResult # None
     /\ ~tBefore.boost_mode_active
     /\ WindowActionTarget(tBefore) = None
     /\ tBefore.preset_mode = "none"
     /\ ~tBefore.night_boost_enabled
     /\ SchedulesInWindow(tBefore, tTime) # {})
    => \E i \in SchedulesInWindow(tBefore, tTime) :
          Val(tResult) = ScheduleValue(tBefore, tBefore.schedules[i])

\* C26: an evaluation of get_effective_target_temperature leaves every field of
\* the area as it was (boost flag, boost end time and preset mode included), so
\* that a second evaluation at the same instant sees the same area and returns
\* the same value.
Cex_C26_EvaluationIsPure ==
    tResult # None
    => /\ tArea = tBefore
       /\ EffectiveTarget(tArea, tTime, tTime).target = Val(tResult)

\* The schedule Area.get_active_schedule_temperature takes its result from: the
\* position of the first of the active schedules with the latest time, or None
ZoneActiveSchedule(a, current_time) ==
    LET active == {i \in 1..Len(a.schedules) :
                      ScheduleIsActive(a.schedules[i], current_time)}
        latest == {i \in active : \A j \in active :
                      ToMinutes(a.schedules[i].time) >= ToMinutes(a.schedules[j].time)}
    IN IF active = {} THEN None
       ELSE Some(CHOOSE i \in latest : \A j \in latest : i <= j)

\* C30: for the area and the instant of an evaluation, the area's own test
\* (Schedule.is_active through get_active_schedule_temperature) finds a
\* schedule active exactly when _find_active_schedule returns one, and both
\* pick the same schedule.
Cex_C30_SameActiveSchedule ==
    tResult # None
    => ZoneActiveSchedule(tBefore, tTime)
          = FindActiveSchedule(tBefore.schedules, Weekday(tTime),
                               MinuteOfDay(tTime))

----------------------------------------------------------------------------
(* ScheduleEngine: ScheduleExecutor._async_check_schedules (scheduler.py) *)

\* schedule_key = f"{area_id}_{schedule.schedule_id}"
ScheduleKey(area_id, schedule_id) == <<area_id, schedule_id>>

\* ApplySchedule that also hands control back to the application
ApplySchedule_ClearsOverride(area, schedule) ==
    IF schedule.preset_mode # None
    THEN [area EXCEPT !.preset_mode = Val(schedule.preset_mode),
                      !.manual_override = FALSE]
    ELSE [area EXCEPT !.target_temperature = Val(schedule.temperature),
                      !.manual_override = FALSE]

\* _apply_schedule(area, schedule): the schedule's preset mode when it names
\* one, its temperature otherwise, and async_save after either assignment.  The
\* climate service call that ends it sets the same temperature once more
\* (climate.py async_set_temperature) or fails and is logged (set_preset_mode),
\* so it leaves the area as it is.
ApplySchedule(area, schedule) ==
    IF schedule.preset_mode # None
    THEN [area EXCEPT !.preset_mode = Val(schedule.preset_mode)]
    ELSE [area EXCEPT !.target_temperature = Val(schedule.temperature)]

\* time.fromisoformat on an "HH:MM" string: the minute of the day, or None where
\* it raises ValueError (hour outside 0..23 or minute outside 0..59)
TimeFromIsoformat(hm) ==
    IF hm[1] \in 0..23 /\ hm[2] \in 0..59 THEN Some(ToMinutes(hm)) ELSE None

\* start_time or end_time of the schedule does not parse
Malformed(s) ==
    TimeFromIsoformat(s.start_time) = None \/ TimeFromIsoformat(s.end_time) = None

\* _find_active_schedule raises ValueError: one of its two loops reaches a
\* schedule of the day it looks at whose time does not parse before it returns
FindActiveScheduleRaises(schedules, current_day, current_time) ==
    LET n == Len(schedules)
        bad1 == {i \in 1..n : schedules[i].day = current_day /\ Malformed(schedules[i])}
        bad2 == {i \in 1..n : schedules[i].day = (current_day + 6) % 7
                                /\ Malformed(schedules[i])}
        returns1 == {i \in 1..n : ~Malformed(schedules[i])
                                    /\ TodayMatches(schedules[i], current_day, current_time)}
        returns2 == {i \in 1..n : ~Malformed(schedules[i])
                                    /\ YesterdayMatches(schedules[i], current_day, current_time)}
    IN \/ \E i \in bad1 : \A j \in returns1 : i < j
       \/ /\ returns1 = {}
          /\ \E i \in bad2 : \A j \in returns2 : i < j

\* the safety margin of _handle_smart_night_boost, minutes
SafetyMargin == 10

\* _find_first_morning_schedule(schedules, now), now = at: the position of the enabled
\* schedule of the current day with the earliest start before 12:00, or None
FindFirstMorningSchedule(schedules, at) ==
    LET morning == {i \in 1..Len(schedules) :
                       /\ schedules[i].enabled
                       /\ schedules[i].day = Weekday(at)
                       /\ schedules[i].start_time[1] \in 0..11}
        earliest == {i \in morning : \A j \in morning :
                        ToMinutes(schedules[i].start_time)
                            <= ToMinutes(schedules[j].start_time)}
    IN IF morning = {} THEN None
       ELSE Some(CHOOSE i \in earliest : \A j \in earliest : i <= j)

\* target_time of _handle_smart_night_boost: the start of the first morning
\* schedule or else smart_night_boost_target_time (<<>>: the empty string),
\* today, or tomorrow if that has passed; None where the method returns
SmartTargetTime(area, at) ==
    LET morning == FindFirstMorningSchedule(area.schedules, at)
        hm == IF morning # None THEN area.schedules[Val(morning)].start_time
              ELSE area.smart_night_boost_target_time
        today == (at - MinuteOfDay(at)) + ToMinutes(hm)
    IN IF hm = <<>> THEN None
       ELSE IF at >= today THEN Some(today + 1440)
       ELSE Some(today)

\* _handle_smart_night_boost(area, now), now = at for an area without weather entity.
\* With a target time and a current temperature the method calls
\* learning_engine.async_predict_heating_time(area_id=, start_temp=,
\* target_temp=, outdoor_temp=); the method's parameters are (area_id,
\* current_temp, target_temp), so the call raises TypeError.
HandleSmartNightBoost(area, at) ==
    IF SmartTargetTime(area, at) = None THEN "no_target"
    ELSE IF area.current_temperature = None THEN "no_temperature"
    ELSE "type_error"

\* The body of the per-area loop of _async_check_schedules (the executor is
\* constructed with a learning engine): the area afterwards,
\* _last_applied_schedule.get(area_id) afterwards, the schedule found and
\* whether it was applied.  On the paths "raised_type_error" and "raised" the
\* TypeError of _handle_smart_night_boost or the ValueError of
\* _find_active_schedule leaves the loop and the tick.
CheckSchedules(area_id, area, last, current_time) ==
    LET skip == [area |-> area, last |-> last, found |-> None,
                 applied |-> FALSE, path |-> "skipped"]
        active == FindActiveSchedule(area.schedules, Weekday(current_time),
                                     MinuteOfDay(current_time))
    IN IF ~area.enabled THEN skip
       ELSE IF area.smart_night_boost_enabled
               /\ HandleSmartNightBoost(area, current_time) = "type_error"
            THEN [skip EXCEPT !.path = "raised_type_error"]
       ELSE IF area.schedules = <<>>
            THEN [skip EXCEPT !.path = "no_schedules"]
       ELSE IF FindActiveScheduleRaises(area.schedules, Weekday(current_time),
                                        MinuteOfDay(current_time))
            THEN [skip EXCEPT !.path = "raised"]
       ELSE IF active # None
            THEN LET schedule == area.schedules[Val(active)]
                     schedule_key == ScheduleKey(area_id, schedule.schedule_id)
                 IN IF last # Some(schedule_key)
                    THEN [area |-> ApplySchedule(area, schedule),
                          last |-> Some(schedule_key),
                          found |-> Some(schedule),
                          applied |-> TRUE, path |-> "active"]
                    ELSE [area |-> area, last |-> last,
                          found |-> Some(schedule),
                          applied |-> FALSE, path |-> "active"]
       ELSE [area |-> area, last |-> None, found |-> None,
             applied |-> FALSE, path |-> "none_active"]

\* The area of SpecEngine
EngineAreaId == "z1"

\* Monday "25:00"-"09:00" @ 19.0: a start time that is no time of day
MalformedSchedule == Schedule("m", 0, <<25, 0>>, <<9, 0>>, TRUE, Some(190), None)

\* Monday 06:00-08:00 @ preset eco
PresetSchedule == Schedule("p", 0, <<6, 0>>, <<8, 0>>, TRUE, None, Some("eco"))

\* Mon 22:00-06:00 @ 18.0, Mon 08:00-22:00 @ 21.0, Tue 06:00-08:00 @ 20.0
\* (disabled), the malformed one and the preset one
EngineSchedules ==
    {s \in ScheduleConfigs : s.schedule_id \in {"a", "b", "e"}}
        \cup {MalformedSchedule, PresetSchedule}

EngineScheduleDicts ==
    UNION {{q \in [1..n -> EngineSchedules] :
               \A i, j \in 1..n : i # j => q[i].schedule_id # q[j].schedule_id} :
           n \in 0..MaxSchedules}

\* Mon 07:00, 09:00, 10:00, 11:00, 23:30, Tue 02:00, 07:00, Wed 23:00, Thu 09:00
EngineInstants ==
    {At(0, 7, 0), At(0, 9, 0), At(0, 10, 0), At(0, 11, 0), At(0, 23, 30),
     At(1, 2, 0), At(1, 7, 0)}

\* smart night boost off, or on with no temperature known or with 18.7
EngineSmartStates == {<<FALSE, None>>, <<TRUE, None>>, <<TRUE, Some(187)>>}

EngineInit ==
    /\ tArea = None /\ tTime = 0 /\ tResult = None /\ tBefore = None
    /\ fSchedules = <<>> /\ fCall = None
    /\ DebounceIdle /\ LoopIdle /\ PredictIdle /\ OverrideIdle /\ ActuateIdle
    /\ \E sc \in EngineScheduleDicts, en \in BOOLEAN, mo \in BOOLEAN :
       \E sm \in EngineSmartStates :
          eArea = [NewArea(200, "none", <<FALSE, None>>, FALSE, <<>>, sc, FALSE)
                      EXCEPT !.enabled = en, !.manual_override = mo,
                             !.smart_night_boost_enabled = sm[1],
                             !.current_temperature = sm[2]]
    /\ eLast = None
    /\ eNow = 0
    /\ eTick = None

\* One tick of the executor: _async_check_schedules at a later minute
EngineTick ==
    /\ \E t \in EngineInstants :
          /\ t > eNow
          /\ \E r \in {CheckSchedules(EngineAreaId, eArea, eLast, t)} :
                /\ eArea' = r.area
                /\ eLast' = r.last
                /\ eNow' = t
                /\ eTick' = Some([found |-> r.found, applied |-> r.applied,
                                  path |-> r.path,
                                  key_before |-> eLast,
                                  key_after |-> r.last,
                                  before |-> eArea,
                                  after |-> r.area,
                                  prev_path |-> IF eTick = None THEN "first"
                                                ELSE Val(eTick).path])
    /\ UNCHANGED <<targetVars, scheduleVars, debounceVars, loopVars, zoneVars,
                   predictVars, overrideVars, actuateVars>>

\* api.py remove_schedule: area_manager.remove_schedule_from_area
ApiRemoveSchedule ==
    /\ \E i \in 1..Len(eArea.schedules) :
          eArea' = [eArea EXCEPT !.schedules =
                       [j \in 1..(Len(eArea.schedules) - 1) |->
                           IF j < i THEN eArea.schedules[j]
                           ELSE eArea.schedules[j + 1]]]
    /\ UNCHANGED <<eLast, eNow, eTick>>
    /\ UNCHANGED <<targetVars, scheduleVars, debounceVars, loopVars, zoneVars,
                   predictVars, overrideVars, actuateVars>>

\* api.py add_schedule with an id the client chose: area.add_schedule puts the
\* schedule at the end of the dict
ApiAddSchedule ==
    /\ Len(eArea.schedules) < MaxSchedules
    /\ \E s \in EngineSchedules :
          /\ \A i \in 1..Len(eArea.schedules) :
                eArea.schedules[i].schedule_id # s.schedule_id
          /\ eArea' = [eArea EXCEPT !.schedules = Append(eArea.schedules, s)]
    /\ UNCHANGED <<eLast, eNow, eTick>>
    /\ UNCHANGED <<targetVars, scheduleVars, debounceVars, loopVars, zoneVars,
                   predictVars, overrideVars, actuateVars>>

EngineNext ==
    \/ EngineTick
    \/ ApiRemoveSchedule
    \/ ApiAddSchedule

SpecEngine == EngineInit /\ [][EngineNext]_vars

\* C13: a tick of the schedule executor leaves the base target temperature and
\* the preset mode of an area whose manual_override flag is set as they were,
\* also when the tick finds a schedule that was not the tracked one.
Cex_C13_OverrideKeepsTarget ==
    (eTick # None /\ Val(eTick).before.manual_override)
    => /\ Val(eTick).after.target_temperature
             = Val(eTick).before.target_temperature
       /\ Val(eTick).after.preset_mode = Val(eTick).before.preset_mode

\* The key of the schedule the latest tick found active
FoundKey == ScheduleKey(EngineAreaId, Val(Val(eTick).found).schedule_id)

\* The latest tick applied the schedule it found and tracks its key
AppliedByTick ==
    /\ Val(eTick).applied
    /\ Val(eTick).key_after = Some(FoundKey)
    /\ Val(eTick).after = ApplySchedule(Val(eTick).before, Val(Val(eTick).found))

\* C20: for an enabled area, a tick that finds the schedule of the tracked key
\* active applies nothing, a tick that finds another schedule active applies it
\* and tracks its key, and the tick that finds a schedule active after a tick
\* that found none active applies it, also when its id is the one tracked last.
Cex_C20_AppliedOncePerWindow ==
    (eTick # None /\ Val(eTick).before.enabled /\ Val(eTick).found # None)
    => /\ Val(eTick).key_before = Some(FoundKey)
          => /\ ~Val(eTick).applied
             /\ Val(eTick).after = Val(eTick).before
             /\ Val(eTick).key_after = Val(eTick).key_before
       /\ Val(eTick).key_before # Some(FoundKey)
          => AppliedByTick
       /\ Val(eTick).prev_path \in {"no_schedules", "none_active"}
          => AppliedByTick

\* The schedules of the area whose times parse, in dict order
RECURSIVE WellFormed(_)
WellFormed(schedules) ==
    IF schedules = <<>> THEN <<>>
    ELSE IF Malformed(Head(schedules)) THEN WellFormed(Tail(schedules))
    ELSE <<Head(schedules)>> \o WellFormed(Tail(schedules))

\* C21: a tick over an enabled area without smart night boost with a schedule whose start or end time
\* does not parse raises no error, and it finds the schedule that is active
\* among the area's other schedules, as if the malformed one were not there.
Cex_C21_MalformedTimeSkipped ==
    (/\ eTick # None
     /\ Val(eTick).before.enabled
     /\ ~Val(eTick).before.smart_night_boost_enabled
     /\ \E i \in 1..Len(Val(eTick).before.schedules) :
            Malformed(Val(eTick).before.schedules[i]))
    => /\ Val(eTick).path # "raised"
       /\ LET rest == WellFormed(Val(eTick).before.schedules)
              active == FindActiveSchedule(rest, Weekday(eNow), MinuteOfDay(eNow))
          IN Val(eTick).found = IF active = None THEN None
                                ELSE Some(rest[Val(active)])

\* now is in [target_time - p - safety margin, target_time) for a prediction p
\* of 1 to 60 minutes
InPreheatWindow(area, t) ==
    /\ SmartTargetTime(area, t) # None
    /\ \E p \in 1..60 :
          /\ t >= Val(SmartTargetTime(area, t)) - p - SafetyMargin
          /\ t < Val(SmartTargetTime(area, t))

\* C25: a tick over an enabled area with smart night boost and a known
\* temperature, at an instant inside the pre-heat window of a prediction of up
\* to an hour, obtains the prediction and ends without an error, so that it
\* can record the pre-heat signal.
Cex_C25_PreheatSignal ==
    (/\ eTick # None
     /\ Val(eTick).before.enabled
     /\ Val(eTick).before.smart_night_boost_enabled
     /\ Val(eTick).before.current_temperature # None
     /\ InPreheatWindow(Val(eTick).before, eNow))
    => Val(eTick).path # "raised_type_error"

\* C31: a schedule that a tick applies to the area, or whose key the tick
\* leaves as the tracked one, is an enabled schedule.
Cex_C31_DisabledNeverApplied ==
    (/\ eTick # None
     /\ Val(eTick).found # None
     /\ (Val(eTick).applied \/ Val(eTick).key_after = Some(FoundKey)))
    => Val(Val(eTick).found).enabled

\* C33: after a tick over an enabled area that ended without error and found
\* no schedule active, also one in which the area has no schedules at all, no
\* key is tracked for the area.
Cex_C33_KeyClearedWhenNoneActive ==
    (/\ eTick # None
     /\ Val(eTick).before.enabled
     /\ Val(eTick).path \in {"no_schedules", "none_active"})
    => Val(eTick).key_after = None

\* C36: a tick over an enabled area with smart night boost whose schedule
\* times all parse ends without error, and the schedule it finds is the one
\* that is active among the area's schedules.
Cex_C36_SmartBoostTickCompletes ==
    (/\ eTick # None
     /\ Val(eTick).before.enabled
     /\ Val(eTick).before.smart_night_boost_enabled
     /\ \A i \in 1..Len(Val(eTick).before.schedules) :
            ~Malformed(Val(eTick).before.schedules[i]))
    => /\ Val(eTick).path \notin {"raised", "raised_type_error"}
       /\ LET active == FindActiveSchedule(Val(eTick).before.schedules,
                                          Weekday(eNow), MinuteOfDay(eNow))
          IN Val(eTick).found = IF active = None THEN None
                                ELSE Some(Val(eTick).before.schedules[Val(active)])

\* C34: after a tick that applies a schedule with a literal temperature to an
\* area whose preset mode an earlier tick set from a schedule (boost off, no
\* window sensors, night boost off), the effective target of the area at the
\* time of the tick is the temperature of the schedule applied.
Cex_C34_LiteralReplacesPreset ==
    (/\ eTick # None
     /\ Val(eTick).applied
     /\ Val(Val(eTick).found).preset_mode = None
     /\ Val(eTick).before.preset_mode # "none")
    => EffectiveTarget(Val(eTick).after, eNow, eNow).target
          = Val(Val(Val(eTick).found).temperature)

----------------------------------------------------------------------------
(* ManualOverrideDetector: SmartHeatingCoordinator (coordinator.py) *)

\* seconds
MANUAL_TEMP_CHANGE_DEBOUNCE == 2

MaxNotifications == 3

Zones == {"z1", "z2"}
\* area_manager.areas in dict order
ZoneOrder == <<"z1", "z2">>
\* the thermostat of each area (area.devices)
Thermostat == [z \in Zones |-> IF z = "z1" THEN "climate.t1" ELSE "climate.t2"]
Entities == {Thermostat[z] : z \in Zones}
NotifiedTemps == {180, 220}

\* The first area in dict order whose devices hold entity_id
OwnerOf(entity_id) ==
    LET owners == {i \in 1..Len(ZoneOrder) : Thermostat[ZoneOrder[i]] = entity_id}
    IN ZoneOrder[CHOOSE i \in owners : \A j \in owners : i <= j]

\* Tasks that have not returned yet
Live(i) == dTasks[i].status # "done"
Sleeping(i) == dTasks[i].status = "sleeping"

DebounceInit ==
    /\ dTasks = <<>>
    /\ dDebounce = [e \in Entities |-> None]
    /\ dAreas = [z \in Zones |-> [target_temperature |-> 200,
                                   manual_override |-> FALSE]]
    /\ dBurst = [e \in Entities |-> [n |-> 0, last |-> None, writes |-> 0,
                                      since |-> MANUAL_TEMP_CHANGE_DEBOUNCE]]
    /\ dSaved = None
    /\ dShutdown = None
    /\ fSchedules = <<>> /\ fCall = None
    /\ tArea = None /\ tTime = 0 /\ tResult = None /\ tBefore = None
    /\ LoopIdle /\ EngineIdle /\ PredictIdle /\ OverrideIdle /\ ActuateIdle

\* task.cancel(): CancelledError is delivered when the task next runs
CancelTask(tasks, o) ==
    IF o # None /\ tasks[Val(o)].status # "done"
    THEN [tasks EXCEPT ![Val(o)].status = "cancelled"]
    ELSE tasks

\* _handle_state_change for a notification in which only the target temperature
\* attribute differs: cancel the task stored for the entity, store a new one.
\* A notification later than the debounce delay after the previous one starts a
\* new burst.  The listener delivers notifications until async_shutdown
\* unsubscribes it.
NotifyTemperature(e, new_temp) ==
    /\ dShutdown = None
    /\ Len(dTasks) < MaxNotifications
    /\ dTasks' = Append(CancelTask(dTasks, dDebounce[e]),
                        [entity_id |-> e, new_temp |-> new_temp,
                         status |-> "sleeping",
                         remaining |-> MANUAL_TEMP_CHANGE_DEBOUNCE])
    /\ dDebounce' = [dDebounce EXCEPT ![e] = Some(Len(dTasks) + 1)]
    /\ dBurst' = [dBurst EXCEPT ![e] =
                     IF @.since < MANUAL_TEMP_CHANGE_DEBOUNCE
                     THEN [@ EXCEPT !.n = @ + 1, !.last = Some(new_temp),
                                    !.since = 0]
                     ELSE [n |-> 1, last |-> Some(new_temp), writes |-> 0,
                           since |-> 0]]
    /\ UNCHANGED <<dAreas, dSaved, dShutdown, otherThanDebounce>>

\* The elapsed timer without the call of area_manager.async_save()
DebounceElapsed_NoSave(i) ==
    /\ Sleeping(i) /\ dTasks[i].remaining = 0
    /\ LET e == dTasks[i].entity_id
           z == OwnerOf(e)
       IN /\ dAreas' = [dAreas EXCEPT ![z] =
                           [target_temperature |-> dTasks[i].new_temp,
                            manual_override |-> TRUE]]
          /\ dBurst' = [dBurst EXCEPT ![e].writes = @ + 1]
    /\ dTasks' = [dTasks EXCEPT ![i].status = "applied"]
    /\ UNCHANGED <<dDebounce, dSaved, dShutdown, otherThanDebounce>>

\* asyncio.sleep(MANUAL_TEMP_CHANGE_DEBOUNCE) returns in task i: the owning area
\* gets the notified value and manual_override and area_manager.async_save()
\* hands all areas to the store; then the task awaits the write and the refresh.
DebounceElapsed(i) ==
    /\ Sleeping(i) /\ dTasks[i].remaining = 0
    /\ LET e == dTasks[i].entity_id
           z == OwnerOf(e)
       IN /\ dAreas' = [dAreas EXCEPT ![z] =
                           [target_temperature |-> dTasks[i].new_temp,
                            manual_override |-> TRUE]]
          /\ dBurst' = [dBurst EXCEPT ![e].writes = @ + 1]
    /\ dSaved' = Some(dAreas')
    /\ dTasks' = [dTasks EXCEPT ![i].status = "applied"]
    /\ UNCHANGED <<dDebounce, dShutdown, otherThanDebounce>>

\* Task i returns, normally or with CancelledError: its finally block deletes
\* _debounce_tasks[entity_id] if the key is present.
TaskFinally(i) ==
    /\ dTasks[i].status \in {"applied", "cancelled"}
    /\ dTasks' = [dTasks EXCEPT ![i].status = "done"]
    /\ dDebounce' = [dDebounce EXCEPT ![dTasks[i].entity_id] = None]
    /\ UNCHANGED <<dAreas, dBurst, dSaved, dShutdown, otherThanDebounce>>

\* One second passes; timers that are due fire first and runnable tasks run first.
SecondPasses ==
    /\ \A i \in 1..Len(dTasks) :
          /\ dTasks[i].status \notin {"applied", "cancelled"}
          /\ Sleeping(i) => dTasks[i].remaining > 0
    /\ \E i \in 1..Len(dTasks) : Sleeping(i)
    /\ dTasks' = [i \in 1..Len(dTasks) |->
                    IF Sleeping(i)
                    THEN [dTasks[i] EXCEPT !.remaining = @ - 1]
                    ELSE dTasks[i]]
    /\ dBurst' = [e \in Entities |->
                    [dBurst[e] EXCEPT !.since =
                        IF @ < MANUAL_TEMP_CHANGE_DEBOUNCE THEN @ + 1 ELSE @]]
    /\ UNCHANGED <<dDebounce, dAreas, dSaved, dShutdown, otherThanDebounce>>

\* async_shutdown: the state listener is unsubscribed; _debounce_tasks is not
\* touched.
AsyncShutdown ==
    /\ dShutdown = None
    /\ dShutdown' = Some(dAreas)
    /\ UNCHANGED <<dTasks, dDebounce, dAreas, dBurst, dSaved, otherThanDebounce>>

DebounceNext ==
    \/ \E e \in Entities, t \in NotifiedTemps : NotifyTemperature(e, t)
    \/ \E i \in 1..Len(dTasks) : DebounceElapsed(i)
    \/ \E i \in 1..Len(dTasks) : TaskFinally(i)
    \/ SecondPasses
    \/ AsyncShutdown

SpecDebounce == DebounceInit /\ [][DebounceNext]_vars

\* C3: for a burst of temperature notifications for one actuator id, each less
\* than the debounce delay after the previous one: at every moment at most one
\* debounce timer for the id is pending and it is the most recent one, and once
\* no task of the id is left running the owning zone's base target has been
\* written exactly once in the burst, with the last notified value, and
\* manual_override is set.
Cex_C3_OneUpdatePerBurst ==
    \A e \in Entities :
        LET mine == {i \in 1..Len(dTasks) : dTasks[i].entity_id = e}
            pending == {i \in mine : Sleeping(i)}
        IN /\ Cardinality(pending) <= 1
           /\ \A i \in pending : \A j \in mine : j <= i
           /\ (dBurst[e].n >= 1 /\ \A i \in mine : ~Live(i))
              => /\ dBurst[e].writes = 1
                 /\ dAreas[OwnerOf(e)].target_temperature = Val(dBurst[e].last)
                 /\ dAreas[OwnerOf(e)].manual_override

\* C14: in the step in which the sleep of a debounce task that was not
\* cancelled returns, the area whose devices hold the task's entity id gets the
\* notified value as target temperature and manual_override = true, the areas
\* are handed to the store as they are after that, and every other area keeps
\* its target temperature and its manual_override.
Thm_C14_ElapsedTimerAdopts ==
    [][\A i \in 1..Len(dTasks) :
          (Sleeping(i) /\ dTasks'[i].status = "applied")
          => \A z \in Zones :
                IF Thermostat[z] = dTasks[i].entity_id
                THEN /\ dAreas'[z].target_temperature = dTasks[i].new_temp
                     /\ dAreas'[z].manual_override
                     /\ dSaved' = Some(dAreas')
                ELSE dAreas'[z] = dAreas[z]]_vars

\* The timer of climate.t1 elapsed with 18.0: z1 has 18.0 and manual_override,
\* the store has that, and z2 is as it was created.
Wit_C14_ElapsedTimerAdopts ==
    /\ \E i \in 1..Len(dTasks) :
          /\ dTasks[i].status = "applied"
          /\ dTasks[i].entity_id = Thermostat["z1"]
          /\ dTasks[i].new_temp = 180
    /\ dAreas["z1"] = [target_temperature |-> 180, manual_override |-> TRUE]
    /\ dAreas["z2"] = [target_temperature |-> 200, manual_override |-> FALSE]
    /\ dSaved = Some(dAreas)

\* C15: once async_shutdown has run, no debounce task is still sleeping and
\* every area has the target temperature and the manual_override it had when
\* async_shutdown ran.
Cex_C15_ShutdownCancelsTimers ==
    dShutdown # None
    => /\ \A i \in 1..Len(dTasks) : ~Sleeping(i)
       /\ \A z \in Zones : dAreas[z] = Val(dShutdown)[z]

----------------------------------------------------------------------------
(* ControlLoop: ClimateController.async_control_heating and its callers *)

\* ClimateController._hysteresis as __init__ sets it (0.5)
Hysteresis == 5
\* the "+ 20" added to the highest target for the boiler setpoint
BoilerOverhead == 200
\* opentherm_gateway_id once set_opentherm_gateway has configured one
GatewayId == "climate.otgw"

\* the instants the wall clock takes: Monday 00:00 and 00:30
ClockInstants == {At(0, 0, 0), At(0, 0, 30)}
\* number of state-changing API requests
MaxApiCalls == 1
\* number of calls of async_control_heating
MaxPasses == 2

\* who awaits async_control_heating: the 30 s interval wrapper, the one-off
\* run_initial_control task, and the API handlers
Callers == {"timer", "initial", "api"}

\* what the temperature sensors of the areas report when a pass starts
\* (None: no sensor is available, current_temperature is left alone)
SensorReadings ==
    {[z \in Zones |-> IF z = "z1" THEN r[1] ELSE r[2]] :
        r \in {<<Some(187), Some(187)>>, <<Some(196), Some(187)>>,
               <<Some(205), None>>}}
\* the temperature and duration the API requests carry
ApiTemperatures == {220}
ApiBoostDuration == 30

\* a service call the pass issues
SetTemperature(t) == [service |-> "set_temperature", temperature |-> Some(t)]
TurnOff == [service |-> "turn_off", temperature |-> None]
TurnOn == [service |-> "turn_on", temperature |-> None]

\* Area.state (property getter)
AreaState(a) ==
    IF ~a.enabled THEN "off"
    ELSE IF a.state # None THEN Val(a.state)
    ELSE IF a.current_temperature # None
            /\ Val(a.current_temperature) < a.target_temperature - 5
         THEN "heating"
    ELSE "idle"

\* SetAreaHeating with the switch following the target instead of the flag
SetAreaHeating_SwitchByTarget(heating, target_temp) ==
    [thermostat |-> Some(IF target_temp # None THEN SetTemperature(Val(target_temp))
                         ELSE TurnOff),
     switch |-> Some(IF heating \/ target_temp = None THEN TurnOn ELSE TurnOff)]

\* _async_set_area_heating for an area with one thermostat and one switch:
\* the calls made to the thermostat and to the switch
SetAreaHeating(heating, target_temp) ==
    [thermostat |-> Some(IF target_temp # None THEN SetTemperature(Val(target_temp))
                         ELSE TurnOff),
     switch |-> Some(IF heating THEN TurnOn ELSE TurnOff)]

NoCommands == [thermostat |-> None, switch |-> None]

\* HeatingDecision without the dead band: whatever does not heat stops
HeatingDecision_NoDeadBand(current_temp, target_temp) ==
    IF current_temp < target_temp - mgr.hysteresis THEN "heat" ELSE "stop"

\* should_heat / should_stop and the if / elif that follows
HeatingDecision(current_temp, target_temp) ==
    IF current_temp < target_temp - mgr.hysteresis THEN "heat"
    ELSE IF current_temp >= target_temp THEN "stop"
    ELSE "hold"

\* ControlArea without the frost protection floor
ControlArea_NoFrostFloor(a0, current_time, wall) ==
    IF ~a0.enabled
    THEN [area |-> [a0 EXCEPT !.state = Some("off")], kind |-> "disabled",
          target |-> None, heating |-> FALSE,
          commands |-> SetAreaHeating(FALSE, None)]
    ELSE
    LET r == EffectiveTarget(a0, current_time, wall)
        a == r.area
        target_temp == r.target
        decision == HeatingDecision(Val(a.current_temperature), target_temp)
    IN IF a.hvac_mode = "off"
       THEN [area |-> [a EXCEPT !.state = Some("off")], kind |-> "hvac_off",
             target |-> Some(target_temp), heating |-> FALSE,
             commands |-> SetAreaHeating(FALSE, None)]
       ELSE IF a.current_temperature = None
       THEN [area |-> a, kind |-> "no_temperature",
             target |-> Some(target_temp), heating |-> FALSE,
             commands |-> NoCommands]
       ELSE IF decision = "heat"
       THEN [area |-> [a EXCEPT !.state = Some("heating")], kind |-> "heat",
             target |-> Some(target_temp), heating |-> TRUE,
             commands |-> SetAreaHeating(TRUE, Some(target_temp))]
       ELSE IF decision = "stop"
       THEN [area |-> [a EXCEPT !.state = Some("idle")], kind |-> "stop",
             target |-> Some(target_temp), heating |-> FALSE,
             commands |-> SetAreaHeating(FALSE, Some(target_temp))]
       ELSE [area |-> a, kind |-> "hold",
             target |-> Some(target_temp), heating |-> FALSE,
             commands |-> NoCommands]

\* The body of the per-area loop of async_control_heating for one area:
\* the Area afterwards, the branch taken, the target computed, whether the area
\* was appended to heating_areas, and the service calls made.
ControlArea(a0, current_time, wall) ==
    IF ~a0.enabled
    THEN [area |-> [a0 EXCEPT !.state = Some("off")], kind |-> "disabled",
          target |-> None, heating |-> FALSE,
          commands |-> SetAreaHeating(FALSE, None)]
    ELSE
    LET r == EffectiveTarget(a0, current_time, wall)
        a == r.area
        target_temp == IF mgr.frost_protection_enabled
                          /\ r.target < mgr.frost_protection_temp
                       THEN mgr.frost_protection_temp
                       ELSE r.target
        decision == HeatingDecision(Val(a.current_temperature), target_temp)
    IN IF a.hvac_mode = "off"
       THEN [area |-> [a EXCEPT !.state = Some("off")], kind |-> "hvac_off",
             target |-> Some(target_temp), heating |-> FALSE,
             commands |-> SetAreaHeating(FALSE, None)]
       ELSE IF a.current_temperature = None
       THEN [area |-> a, kind |-> "no_temperature",
             target |-> Some(target_temp), heating |-> FALSE,
             commands |-> NoCommands]
       ELSE IF decision = "heat"
       THEN [area |-> [a EXCEPT !.state = Some("heating")], kind |-> "heat",
             target |-> Some(target_temp), heating |-> TRUE,
             commands |-> SetAreaHeating(TRUE, Some(target_temp))]
       ELSE IF decision = "stop"
       THEN [area |-> [a EXCEPT !.state = Some("idle")], kind |-> "stop",
             target |-> Some(target_temp), heating |-> FALSE,
             commands |-> SetAreaHeating(FALSE, Some(target_temp))]
       ELSE [area |-> a, kind |-> "hold",
             target |-> Some(target_temp), heating |-> FALSE,
             commands |-> NoCommands]

\* GatewayCommand with the setpoint taken as the highest target itself
GatewayCommand_NoOverhead(any_heating, max_target_temp) ==
    IF ~mgr.opentherm_enabled THEN None
    ELSE IF mgr.opentherm_gateway_id = None THEN None
    ELSE IF any_heating THEN Some(SetTemperature(max_target_temp))
    ELSE Some(TurnOff)

\* _async_control_opentherm_gateway: the call made to the gateway, if any
GatewayCommand(any_heating, max_target_temp) ==
    IF ~mgr.opentherm_enabled THEN None
    ELSE IF mgr.opentherm_gateway_id = None THEN None
    ELSE IF any_heating THEN Some(SetTemperature(max_target_temp + BoilerOverhead))
    ELSE Some(TurnOff)

\* what is recorded of the areas when a pass ends
Snapshot(as) ==
    [z \in Zones |-> [enabled |-> as[z].enabled, state |-> AreaState(as[z]),
                      boost_mode_active |-> as[z].boost_mode_active,
                      preset_mode |-> as[z].preset_mode]]

\* the local variables of a call of async_control_heating that is not running
IdlePass ==
    [pc |-> "idle", idx |-> 0, current_time |-> 0, boost_expired |-> {},
     controlled |-> {}, heating_areas |-> <<>>, max_target_temp |-> 0]

\* Two areas without window sensors, schedules or night boost; AreaManager
\* defaults, with or without a configured OpenTherm gateway; a controller
\* constructed without a learning engine.
LoopInit ==
    /\ tArea = None /\ tTime = 0 /\ tResult = None /\ tBefore = None
    /\ fSchedules = <<>> /\ fCall = None
    /\ DebounceIdle /\ EngineIdle /\ PredictIdle /\ OverrideIdle /\ ActuateIdle
    /\ areas = [z \in Zones |->
                   NewArea(IF z = "z1" THEN 200 ELSE 190, "none", <<FALSE, None>>,
                           FALSE, <<>>, <<>>, FALSE)]
    /\ \E ot \in BOOLEAN :
          mgr = [opentherm_enabled |-> ot,
                 opentherm_gateway_id |-> IF ot THEN Some(GatewayId) ELSE None,
                 frost_protection_enabled |-> FALSE,
                 frost_protection_temp |-> DEFAULT_FROST_PROTECTION_TEMP,
                 hysteresis |-> Hysteresis,
                 learning_engine |-> FALSE]
    /\ now = 0
    /\ passes = [c \in Callers |-> IdlePass]
    /\ calls = [initial |-> FALSE, api |-> 0, passes |-> 0]
    /\ lastPass = None
    /\ zArea = None /\ lastStep = None /\ zTracked = FALSE /\ zEvent = None

\* async_control_heating from its first line to the start of the per-area loop,
\* called by `caller` on the areas `as0` while the sensors report `rd`:
\* async_update_area_temperatures, then the boost-expiry loop, whose call
\* area.check_boost_expiry(current_time) passes an argument the method does not
\* take and raises TypeError for the first area with boost mode active.
BeginPass(caller, as0, rd) ==
    LET as == [z \in Zones |->
                  IF rd[z] # None
                  THEN [as0[z] EXCEPT !.current_temperature = rd[z]]
                  ELSE as0[z]]
        boosted == {z \in Zones : as[z].boost_mode_active}
        expired == {z \in boosted : as[z].boost_end_time # None
                                    /\ now >= Val(as[z].boost_end_time)}
    IN /\ calls.passes < MaxPasses
       /\ areas' = as
       /\ IF boosted # {}
          THEN /\ lastPass' = [outcome |-> "raised",
                               boost_active |-> boosted, boost_expired |-> expired,
                               controlled |-> {}, heating_areas |-> <<>>,
                               gateway_called |-> FALSE, gateway |-> None,
                               after |-> Snapshot(as)]
               /\ UNCHANGED passes
          ELSE /\ passes' = [passes EXCEPT ![caller] =
                                [pc |-> "zones", idx |-> 1, current_time |-> now,
                                 boost_expired |-> expired, controlled |-> {},
                                 heating_areas |-> <<>>, max_target_temp |-> 0]]
               /\ UNCHANGED lastPass

\* async_track_time_interval calls async_control_heating_wrapper
TimerFires ==
    /\ passes["timer"].pc = "idle"
    /\ calls' = [calls EXCEPT !.passes = @ + 1]
    /\ \E rd \in SensorReadings : BeginPass("timer", areas, rd)
    /\ UNCHANGED <<mgr, now, otherThanLoop>>

\* run_initial_control, once, after its sleep
InitialRun ==
    /\ ~calls.initial
    /\ calls.passes = 0
    /\ passes["initial"].pc = "idle"
    /\ calls' = [calls EXCEPT !.initial = TRUE, !.passes = @ + 1]
    /\ \E rd \in SensorReadings : BeginPass("initial", areas, rd)
    /\ UNCHANGED <<mgr, now, otherThanLoop>>

\* API set_temperature: get_effective_target_temperature() for the log line,
\* the new target, manual override cleared, again the effective target, the save,
\* then async_control_heating
ApiSetTemperature(z, temperature) ==
    /\ calls.api < MaxApiCalls
    /\ passes["api"].pc = "idle"
    /\ calls' = [calls EXCEPT !.api = @ + 1, !.passes = @ + 1]
    /\ LET a1 == EffectiveTarget(areas[z], now, now).area
           a2 == [a1 EXCEPT !.target_temperature = temperature,
                            !.manual_override = FALSE]
           a3 == EffectiveTarget(a2, now, now).area
       IN \E rd \in SensorReadings :
              BeginPass("api", [areas EXCEPT ![z] = a3], rd)
    /\ UNCHANGED <<mgr, now, otherThanLoop>>

\* API set_boost_mode: area.set_boost_mode(duration, temp); no control pass
ApiSetBoostMode(z) ==
    /\ calls.api < MaxApiCalls
    /\ calls' = [calls EXCEPT !.api = @ + 1]
    /\ areas' = [areas EXCEPT ![z] = SetBoostMode(@, ApiBoostDuration, None, now)]
    /\ UNCHANGED <<mgr, now, passes, lastPass, otherThanLoop>>

\* API get_area / get_areas: area.get_effective_target_temperature()
ApiGetArea(z) ==
    /\ areas' = [areas EXCEPT ![z] = EffectiveTarget(@, now, now).area]
    /\ UNCHANGED <<mgr, now, passes, calls, lastPass, otherThanLoop>>

\* One iteration of the per-area loop, up to its next await
ControlNextArea(c) ==
    /\ passes[c].pc = "zones"
    /\ LET p == passes[c]
           z == ZoneOrder[p.idx]
           r == ControlArea(areas[z], p.current_time, now)
       IN /\ areas' = [areas EXCEPT ![z] = r.area]
          /\ passes' = [passes EXCEPT ![c] =
                [p EXCEPT !.idx = @ + 1,
                          !.pc = IF p.idx = Len(ZoneOrder) THEN "gateway" ELSE "zones",
                          !.controlled = @ \cup {z},
                          !.heating_areas =
                              IF r.heating
                              THEN Append(@, [zone |-> z, target |-> Val(r.target)])
                              ELSE @,
                          !.max_target_temp =
                              IF r.heating THEN Max(@, Val(r.target)) ELSE @]]
    /\ UNCHANGED <<mgr, now, calls, lastPass, otherThanLoop>>

\* The end of the pass: _async_control_opentherm_gateway(len(heating_areas) > 0,
\* max_target_temp)
ControlGateway(c) ==
    /\ passes[c].pc = "gateway"
    /\ LET p == passes[c]
       IN lastPass' = [outcome |-> "completed",
                       boost_active |-> {}, boost_expired |-> p.boost_expired,
                       controlled |-> p.controlled,
                       heating_areas |-> p.heating_areas,
                       gateway_called |-> TRUE,
                       gateway |-> GatewayCommand(Len(p.heating_areas) > 0,
                                                  p.max_target_temp),
                       after |-> Snapshot(areas)]
    /\ passes' = [passes EXCEPT ![c] = IdlePass]
    /\ UNCHANGED <<areas, mgr, now, calls, otherThanLoop>>

\* time passes
Tick ==
    /\ \E t \in ClockInstants :
          /\ t > now
          /\ \A u \in ClockInstants : u > now => t <= u
          /\ now' = t
    /\ UNCHANGED <<areas, mgr, passes, calls, lastPass, otherThanLoop>>

ApiRequests ==
    \/ \E z \in Zones : \E t \in ApiTemperatures : ApiSetTemperature(z, t)
    \/ \E z \in Zones : ApiSetBoostMode(z)
    \/ \E z \in Zones : ApiGetArea(z)

PassSteps ==
    \/ \E c \in Callers : ControlNextArea(c)
    \/ \E c \in Callers : ControlGateway(c)

Next ==
    \/ TimerFires
    \/ InitialRun
    \/ ApiRequests
    \/ PassSteps
    \/ Tick

Spec == LoopInit /\ [][Next]_vars

\* C5: when a pass has run to its end with the OpenTherm gateway enabled and
\* configured, the gateway got set_temperature with the highest target among the
\* areas the pass decided to heat plus 20.0 if there is such an area, and
\* turn_off if there is none.
Thm_C5_GatewaySetpoint ==
    (/\ lastPass # None
     /\ lastPass.outcome = "completed"
     /\ mgr.opentherm_enabled
     /\ mgr.opentherm_gateway_id # None)
    => LET targets == {lastPass.heating_areas[i].target :
                          i \in 1..Len(lastPass.heating_areas)}
       IN IF targets # {}
          THEN \E top \in targets :
                  /\ \A t \in targets : t <= top
                  /\ lastPass.gateway = Some(SetTemperature(top + 200))
          ELSE lastPass.gateway = Some(TurnOff)

\* Both areas heat, z1 towards 20.0 and z2 towards 22.0: the gateway gets 42.0
Wit_C5_GatewaySetpoint ==
    /\ lastPass # None
    /\ lastPass.outcome = "completed"
    /\ mgr.opentherm_enabled
    /\ lastPass.heating_areas = <<[zone |-> "z1", target |-> 200],
                                  [zone |-> "z2", target |-> 220]>>
    /\ lastPass.gateway = Some(SetTemperature(420))

\* C6: when a pass has run to its end with the OpenTherm gateway enabled and
\* some enabled area's state is heating, the gateway got set_temperature in that
\* pass, not turn_off.  (Stated for the timer's passes alone, which follow one
\* another: no other caller has started a pass.)
Cex_C6_HeatingKeepsBoiler ==
    (/\ lastPass # None
     /\ lastPass.outcome = "completed"
     /\ calls.api = 0 /\ ~calls.initial
     /\ mgr.opentherm_enabled
     /\ \E z \in Zones : /\ lastPass.after[z].enabled
                         /\ lastPass.after[z].state = "heating")
    => /\ lastPass.gateway # None
       /\ Val(lastPass.gateway).service = "set_temperature"

\* C7: at most one call of async_control_heating is in progress at any time.
Cex_C7_OnePassAtATime ==
    Cardinality({c \in Callers : passes[c].pc # "idle"}) <= 1

\* C8: every pass that has ended, also one that began with boost mode active in
\* some area, has controlled every area and has called the gateway control.
Cex_C8_FaultIsolation ==
    lastPass # None
    => /\ lastPass.outcome = "completed"
       /\ lastPass.controlled = Zones
       /\ lastPass.gateway_called

\* C9: when a pass has ended that began at or after the boost end time of an
\* area with boost mode active, that area's boost mode is no longer active.
Cex_C9_BoostExpires ==
    lastPass # None
    => \A z \in lastPass.boost_expired : ~lastPass.after[z].boost_mode_active

----------------------------------------------------------------------------
(* SpecZone: the per-area loop body of async_control_heating, pass after pass,
   on one area *)

\* number of passes over the area
MaxZoneSteps == 2

\* what the area's temperature sensors report at the start of a pass
ZoneReadings == {None, Some(62), Some(187), Some(192), Some(196), Some(205)}

\* the window sensor of the areas that have one: reduce_temperature, default drop
ReducingSensor == [action_when_open |-> "reduce_temperature", temp_drop |-> None]

\* boost off, or on until Monday 00:30
ZoneBoostStates == {<<FALSE, None>>, <<TRUE, Some(At(0, 0, 30))>>}

ZoneAreas ==
    {[NewArea(t, p, b, w, IF w THEN <<ReducingSensor>> ELSE <<>>, <<>>, FALSE)
         EXCEPT !.enabled = en, !.hvac_mode = hm,
                !.shutdown_switches_when_idle = sd] :
        t \in {60, 200}, p \in {"none", "eco"}, b \in ZoneBoostStates,
        w \in BOOLEAN, en \in BOOLEAN, hm \in {"heat", "off"}, sd \in BOOLEAN}

\* LearningEngine.async_start_heating_event(area_id, current_temp) without a
\* weather entity: the new value of _active_heating_events[area_id]
StartHeatingEvent(current_temp, wall) ==
    Some([start_time |-> wall, start_temp |-> current_temp, outdoor_temp |-> None])

\* The learning-engine part of the should_heat and should_stop branches of the
\* loop body, for an area with `tracked` = area_id in _area_heating_events and
\* `event` = _active_heating_events.get(area_id): both afterwards, and whether
\* async_start_heating_event and async_end_heating_event were called.
\* async_end_heating_event pops the area's event.
LearningCalls(kind, tracked, event, current_temp, wall) ==
    IF mgr.learning_engine /\ kind = "heat" /\ ~tracked
    THEN [tracked |-> tracked, event |-> StartHeatingEvent(current_temp, wall),
          started |-> TRUE, ended |-> FALSE]
    ELSE IF mgr.learning_engine /\ kind = "stop" /\ tracked
    THEN [tracked |-> FALSE, event |-> None, started |-> FALSE, ended |-> TRUE]
    ELSE [tracked |-> tracked, event |-> event, started |-> FALSE, ended |-> FALSE]

ZoneInit ==
    /\ tArea = None /\ tTime = 0 /\ tResult = None /\ tBefore = None
    /\ fSchedules = <<>> /\ fCall = None
    /\ DebounceIdle /\ EngineIdle /\ PredictIdle /\ OverrideIdle /\ ActuateIdle
    /\ areas = None /\ passes = None /\ calls = None /\ lastPass = None
    /\ \E fr \in BOOLEAN, le \in BOOLEAN : \E h \in {Hysteresis, 10} :
          mgr = [opentherm_enabled |-> FALSE,
                 opentherm_gateway_id |-> None,
                 frost_protection_enabled |-> fr,
                 frost_protection_temp |-> DEFAULT_FROST_PROTECTION_TEMP,
                 hysteresis |-> h,
                 learning_engine |-> le]
    /\ now \in ClockInstants
    /\ zArea \in ZoneAreas
    /\ lastStep = None
    /\ zTracked = FALSE
    /\ zEvent = None

\* UpdateAreaTemperature storing None when no sensor has a reading
UpdateAreaTemperature_ClearsOnMissing(a, rd) ==
    [a EXCEPT !.current_temperature = rd]

\* async_update_area_temperatures for the area: the reading is stored if the
\* sensor has one
UpdateAreaTemperature(a, rd) ==
    IF rd # None THEN [a EXCEPT !.current_temperature = rd] ELSE a

\* One pass as far as the area is concerned, at the same or a later instant
\* than the previous one: async_update_area_temperatures stores the reading,
\* then the loop body runs for the area.
ControlOneArea ==
    /\ IF lastStep = None THEN TRUE ELSE lastStep.n < MaxZoneSteps
    /\ \E rd \in ZoneReadings, t \in ClockInstants :
          /\ t >= now
          /\ \E a1 \in {UpdateAreaTemperature(zArea, rd)} :
             \E r \in {ControlArea(a1, t, t)} :
             \E l \in {LearningCalls(r.kind, zTracked, zEvent,
                                     a1.current_temperature, t)} :
                /\ now' = t
                /\ zArea' = r.area
                /\ zTracked' = l.tracked
                /\ zEvent' = l.event
                /\ lastStep' = [n |-> IF lastStep = None THEN 1
                                      ELSE lastStep.n + 1,
                                enabled |-> a1.enabled,
                                hvac_mode |-> a1.hvac_mode,
                                shutdown_switches_when_idle |->
                                    a1.shutdown_switches_when_idle,
                                reading |-> rd,
                                temp_before |-> zArea.current_temperature,
                                current_temp |-> a1.current_temperature,
                                effective |-> EffectiveTarget(a1, t, t).target,
                                kind |-> r.kind,
                                target |-> r.target,
                                stored_before |-> zArea.state,
                                stored_after |-> r.area.state,
                                state_before |-> AreaState(zArea),
                                state_after |-> AreaState(r.area),
                                commands |-> r.commands,
                                heating |-> r.heating,
                                event_before |-> zEvent,
                                started |-> l.started,
                                ended |-> l.ended]
    /\ UNCHANGED <<mgr, areas, passes, calls, lastPass,
                   targetVars, scheduleVars, debounceVars, engineVars, predictVars, overrideVars, actuateVars>>

ZoneNext == ControlOneArea

SpecZone == ZoneInit /\ [][ZoneNext]_vars

Cex_C16_EventEndsWhenIdle ==
    (/\ lastStep # None
     /\ mgr.learning_engine
     /\ lastStep.event_before # None
     /\ lastStep.stored_before = Some("heating")
     /\ lastStep.kind = "stop")
    => /\ lastStep.ended
       /\ zEvent = None

\* C17: with a learning engine, async_start_heating_event is called only in a
\* pass that takes the area from not heating to heating, and a pass in which an
\* area that is heating still needs heat leaves the open event with its start
\* time and start temperature.
Cex_C17_EventOpenedOnTransition ==
    (lastStep # None /\ mgr.learning_engine)
    => /\ lastStep.started => lastStep.stored_before # Some("heating")
       /\ (/\ lastStep.kind = "heat"
           /\ lastStep.stored_before = Some("heating")
           /\ lastStep.event_before # None)
          => zEvent = lastStep.event_before

\* C24: whenever the loop body has handled an area that is disabled or whose
\* HVAC mode is off, whatever its temperatures: the area's state is off, its
\* thermostat and its switch got turn_off, and the area was not appended to
\* heating_areas.
Thm_C24_OffZonesStayOff ==
    (/\ lastStep # None
     /\ (~lastStep.enabled \/ lastStep.hvac_mode = "off"))
    => /\ lastStep.state_after = "off"
       /\ lastStep.commands = [thermostat |-> Some(TurnOff), switch |-> Some(TurnOff)]
       /\ ~lastStep.heating

\* An enabled area in HVAC mode off at 6.2 against a target of 20.0
Wit_C24_OffZonesStayOff ==
    /\ lastStep # None
    /\ lastStep.enabled /\ lastStep.hvac_mode = "off"
    /\ lastStep.current_temp = Some(62)
    /\ lastStep.target = Some(200)
    /\ lastStep.state_after = "off"
    /\ lastStep.commands.switch = Some(TurnOff)
    /\ ~lastStep.heating

Cex_C38_SetpointEveryPass ==
    (/\ lastStep # None
     /\ lastStep.enabled
     /\ lastStep.hvac_mode = "heat"
     /\ lastStep.current_temp # None)
    => lastStep.commands.thermostat = Some(SetTemperature(Val(lastStep.target)))

\* C39: whenever a pass has handled an enabled area in HVAC mode heat: with
\* frost protection enabled the target of the pass is the larger of the
\* effective target and the frost protection temperature, so never below the
\* latter; with frost protection disabled it is the effective target; the
\* hysteresis decision is taken on that target and set_temperature carries it.
Thm_C39_FrostFloor ==
    (/\ lastStep # None
     /\ lastStep.enabled
     /\ lastStep.hvac_mode = "heat")
    => /\ lastStep.target # None
       /\ mgr.frost_protection_enabled
          => /\ Val(lastStep.target) >= mgr.frost_protection_temp
             /\ Val(lastStep.target) = Max(lastStep.effective, mgr.frost_protection_temp)
       /\ ~mgr.frost_protection_enabled
          => Val(lastStep.target) = lastStep.effective
       /\ lastStep.current_temp # None
          => lastStep.kind = HeatingDecision(Val(lastStep.current_temp),
                                             Val(lastStep.target))
       /\ lastStep.kind \in {"heat", "stop"}
          => lastStep.commands.thermostat
                = Some(SetTemperature(Val(lastStep.target)))

\* Frost protection at 7.0, window open on an area with base target 6.0: the
\* effective target is the 5.0 floor, the pass heats the area at 6.2 towards 7.0
Wit_C39_FrostFloor ==
    /\ lastStep # None
    /\ lastStep.enabled /\ lastStep.hvac_mode = "heat"
    /\ mgr.frost_protection_enabled
    /\ zArea.window_is_open
    /\ lastStep.effective = 50
    /\ lastStep.target = Some(70)
    /\ lastStep.current_temp = Some(62)
    /\ lastStep.kind = "heat"
    /\ lastStep.commands.thermostat = Some(SetTemperature(70))

\* C40: whenever a pass has found an enabled area at or above its target (the
\* area goes idle) and the area's shutdown_switches_when_idle is false, the
\* area's switch did not get turn_off.
Cex_C40_SwitchKeptOnIdle ==
    (/\ lastStep # None
     /\ lastStep.enabled
     /\ lastStep.kind = "stop"
     /\ ~lastStep.shutdown_switches_when_idle)
    => lastStep.commands.switch # Some(TurnOff)

----------------------------------------------------------------------------
(* SpecOverride: one area with a thermostat and a switch; the state listener of
   the coordinator, the control pass, the schedule tick and the API on it *)

\* area.devices of the area: entity id -> device type
OverrideDevices == [e \in {"climate.t1", "switch.p1"} |->
                       IF e = "climate.t1" THEN "thermostat" ELSE "switch"]

\* the states hass.states can hold for a device: state, and the attributes
\* temperature, current_temperature and hvac_action (None: no such attribute).
\* The plug reports its own temperature in the attribute temperature.
DeviceStates(e) ==
    IF OverrideDevices[e] = "thermostat"
    THEN [state : {"heat", "off"}, temperature : {Some(200), Some(220)},
          current_temperature : {Some(187), Some(205)},
          hvac_action : {Some("idle"), Some("heating")}]
    ELSE [state : {"on", "off"}, temperature : {Some(310), Some(320)},
          current_temperature : {None}, hvac_action : {None}]

\* number of state changes that come from outside
MaxChanges == 2

\* Mon 07:00, Mon 09:00
OverrideInstants == {At(0, 7, 0), At(0, 9, 0)}

\* the if / elif chain of _handle_state_change: the branch taken
StateChangeBranch(old_state, new_state) ==
    IF new_state = None THEN "no_new_state"
    ELSE IF old_state = None THEN "initial"
    ELSE IF Val(old_state).state # Val(new_state).state THEN "state"
    ELSE IF Val(old_state).temperature # Val(new_state).temperature
         THEN "temperature"
    ELSE IF Val(old_state).current_temperature # Val(new_state).current_temperature
         THEN "current_temperature"
    ELSE IF Val(old_state).hvac_action # Val(new_state).hvac_action
         THEN "hvac_action"
    ELSE "none"

\* hass.states gets new_state for entity_id and, if it differs from the state
\* held, the state machine fires state_changed and _handle_state_change runs:
\* on the branch "temperature" the task stored for the entity is cancelled and a
\* new one is stored.  `origin` is who caused the write; the handler does not
\* see it.
HandleStateChange(states, tasks, entity_id, new_state, origin) ==
    LET branch == StateChangeBranch(Some(states[entity_id]), Some(new_state))
    IN IF new_state = states[entity_id]
       THEN [states |-> states, tasks |-> tasks, started |-> {}]
       ELSE [states |-> [states EXCEPT ![entity_id] = new_state],
             tasks |-> IF branch = "temperature"
                       THEN [tasks EXCEPT ![entity_id] =
                                Some([new_temp |-> Val(new_state.temperature),
                                      origin |-> origin])]
                       ELSE tasks,
             started |-> IF branch = "temperature" THEN {entity_id} ELSE {}]

\* What a service call does to the state of the device that gets it
ServiceEffect(old_state, call) ==
    IF call.service = "set_temperature"
    THEN [old_state EXCEPT !.temperature = call.temperature]
    ELSE IF call.service = "turn_off" THEN [old_state EXCEPT !.state = "off"]
    ELSE [old_state EXCEPT !.state = "on"]

\* A service call of the pass, or none, reaches the device and its new state
\* is notified
Commanded(n, entity_id, call) ==
    IF call = None THEN n
    ELSE LET m == HandleStateChange(n.states, n.tasks, entity_id,
                                    ServiceEffect(n.states[entity_id], Val(call)),
                                    "engine")
         IN [m EXCEPT !.started = @ \cup n.started]

OverrideInit ==
    /\ tArea = None /\ tTime = 0 /\ tResult = None /\ tBefore = None
    /\ fSchedules = <<>> /\ fCall = None
    /\ DebounceIdle /\ PredictIdle /\ ActuateIdle
    /\ areas = None /\ passes = None /\ lastPass = None
    /\ zArea = None /\ lastStep = None /\ zTracked = FALSE /\ zEvent = None
    /\ mgr = [opentherm_enabled |-> FALSE,
              opentherm_gateway_id |-> None,
              frost_protection_enabled |-> FALSE,
              frost_protection_temp |-> DEFAULT_FROST_PROTECTION_TEMP,
              hysteresis |-> Hysteresis,
              learning_engine |-> FALSE]
    /\ now = 0
    /\ calls = [external |-> 0, passes |-> 0, api |-> 0]
    /\ eArea = NewArea(200, "none", <<FALSE, None>>, FALSE, <<>>,
                       <<Schedule("b", 0, <<8, 0>>, <<22, 0>>, TRUE, Some(210), None)>>,
                       FALSE)
    /\ eLast = None /\ eNow = 0 /\ eTick = None
    /\ oStates \in [DOMAIN OverrideDevices ->
                       UNION {DeviceStates(e) : e \in DOMAIN OverrideDevices}]
    /\ \A e \in DOMAIN OverrideDevices :
          /\ oStates[e] \in DeviceStates(e)
          /\ oStates[e].temperature \in {Some(200), Some(310)}
          /\ oStates[e].hvac_action \in {None, Some("idle")}
    /\ oTimers = [e \in DOMAIN OverrideDevices |-> None]
    /\ oLast = None
    /\ oHuman = FALSE

\* A device's state is changed from outside: at the device, by its integration
ExternalChange(e, new_state) ==
    /\ calls.external < MaxChanges
    /\ new_state # oStates[e]
    /\ calls' = [calls EXCEPT !.external = @ + 1]
    /\ \E n \in {HandleStateChange(oStates, oTimers, e, new_state, "external")} :
          /\ oStates' = n.states
          /\ oTimers' = n.tasks
          /\ oLast' = Some([kind |-> "external", entity |-> Some(e),
                            old |-> Some(oStates[e]), new |-> Some(new_state),
                            started |-> n.started])
    /\ oHuman' = (oHuman \/ new_state.temperature # oStates[e].temperature)
    /\ UNCHANGED <<mgr, now, areas, passes, lastPass, zoneVars, engineVars,
                   targetVars, scheduleVars, debounceVars, predictVars, actuateVars>>

\* debounced_temp_update of the task stored for e once its sleep has returned:
\* the area whose devices hold e gets the value and manual_override, and the
\* finally block deletes the entry
DebouncedTempUpdate(e) ==
    /\ oTimers[e] # None
    /\ eArea' = [eArea EXCEPT !.target_temperature = Val(oTimers[e]).new_temp,
                              !.manual_override = TRUE]
    /\ oTimers' = [oTimers EXCEPT ![e] = None]
    /\ oLast' = Some([kind |-> "elapsed", entity |-> Some(e),
                      old |-> None, new |-> None, started |-> {}])
    /\ UNCHANGED <<oStates, oHuman, eLast, eNow, eTick, loopVars, zoneVars,
                   targetVars, scheduleVars, debounceVars, predictVars, actuateVars>>

\* async_control_heating over the area `area` while its sensor reports rd: the
\* loop body, and its service calls reaching the thermostat and the switch
RunPass(area, rd, kind) ==
    \E a1 \in {UpdateAreaTemperature(area, rd)} :
    \E r \in {ControlArea(a1, now, now)} :
    \E n1 \in {Commanded([states |-> oStates, tasks |-> oTimers, started |-> {}],
                         "climate.t1", r.commands.thermostat)} :
    \E n2 \in {Commanded(n1, "switch.p1", r.commands.switch)} :
       /\ eArea' = r.area
       /\ oStates' = n2.states
       /\ oTimers' = n2.tasks
       /\ oLast' = Some([kind |-> kind, entity |-> None, old |-> None,
                         new |-> None, started |-> n2.started])

\* async_control_heating called by the 30 s interval
OverridePass ==
    /\ calls.passes < MaxPasses
    /\ calls' = [calls EXCEPT !.passes = @ + 1]
    /\ \E rd \in {Some(187), Some(205)} : RunPass(eArea, rd, "pass")
    /\ UNCHANGED <<oHuman, eLast, eNow, eTick, mgr, now, areas, passes, lastPass,
                   zoneVars, targetVars, scheduleVars, debounceVars, predictVars,
                   actuateVars>>

\* API set_temperature on the area: the new target, manual override cleared,
\* the effective target evaluated before and after, then async_control_heating
ApiSetAreaTemperature(temperature) ==
    /\ calls.api < MaxApiCalls
    /\ calls' = [calls EXCEPT !.api = @ + 1]
    /\ \E a1 \in {EffectiveTarget(eArea, now, now).area} :
       \E a2 \in {[a1 EXCEPT !.target_temperature = temperature,
                             !.manual_override = FALSE]} :
       \E a3 \in {EffectiveTarget(a2, now, now).area} :
       \E rd \in {Some(187), Some(205)} : RunPass(a3, rd, "api")
    /\ UNCHANGED <<oHuman, eLast, eNow, eTick, mgr, now, areas, passes, lastPass,
                   zoneVars, targetVars, scheduleVars, debounceVars, predictVars,
                   actuateVars>>

\* One tick of the schedule executor over the area
OverrideTick ==
    /\ \E t \in OverrideInstants :
          /\ t > eNow
          /\ \E r \in {CheckSchedules(EngineAreaId, eArea, eLast, t)} :
                /\ eArea' = r.area
                /\ eLast' = r.last
                /\ eNow' = t
    /\ oLast' = Some([kind |-> "tick", entity |-> None, old |-> None,
                      new |-> None, started |-> {}])
    /\ UNCHANGED <<eTick, oStates, oTimers, oHuman, loopVars, zoneVars,
                   targetVars, scheduleVars, debounceVars, predictVars, actuateVars>>

OverrideNext ==
    \/ \E e \in DOMAIN OverrideDevices : \E s \in DeviceStates(e) : ExternalChange(e, s)
    \/ \E e \in DOMAIN OverrideDevices : DebouncedTempUpdate(e)
    \/ OverridePass
    \/ \E t \in ApiTemperatures : ApiSetAreaTemperature(t)
    \/ OverrideTick

SpecOverride == OverrideInit /\ [][OverrideNext]_vars

\* C27: a debounce task is pending only for a state that was written from
\* outside, not for one that a service call of the control pass produced, and
\* as long as no target temperature was changed from outside manual_override
\* is false.
Cex_C27_OwnCommandsIgnored ==
    /\ \A e \in DOMAIN OverrideDevices :
          oTimers[e] # None => Val(oTimers[e]).origin = "external"
    /\ ~oHuman => ~eArea.manual_override

\* C28: a state change from outside starts a debounce task only if the device
\* is a thermostat and the attribute temperature differs while the state and
\* the attribute current_temperature are the same as before.
Cex_C28_OnlyThermostatTargetChange ==
    (/\ oLast # None
     /\ Val(oLast).kind = "external"
     /\ Val(oLast).started # {})
    => /\ OverrideDevices[Val(Val(oLast).entity)] = "thermostat"
       /\ Val(Val(oLast).old).state = Val(Val(oLast).new).state
       /\ Val(Val(oLast).old).temperature # Val(Val(oLast).new).temperature
       /\ Val(Val(oLast).old).current_temperature
             = Val(Val(oLast).new).current_temperature

\* C29: a step that takes manual_override of the area from true to false is a
\* request of the API; no control pass, no tick of the schedule executor and no
\* debounce task does it.
Thm_C29_OnlyApiClearsOverride ==
    [][(eArea.manual_override /\ ~eArea'.manual_override)
       => (oLast' # None /\ Val(oLast').kind = "api")]_vars

\* A tick applied the 21.0 of the schedule to the area while manual_override
\* was set, and manual_override is still set
Wit_C29_OnlyApiClearsOverride ==
    /\ eArea.manual_override
    /\ oLast # None /\ Val(oLast).kind = "tick"
    /\ eLast = Some(ScheduleKey(EngineAreaId, "b"))
    /\ eArea.target_temperature = 210

----------------------------------------------------------------------------
(* SpecActuate: the service calls of a pass, _async_set_area_heating for the
   devices of two areas and _async_control_opentherm_gateway
   (climate_controller.py) *)

\* const.py: the TRV temperatures AreaManager starts with
DEFAULT_TRV_HEATING_TEMP == 250
DEFAULT_TRV_IDLE_TEMP == 100
DEFAULT_TRV_TEMP_OFFSET == 100

\* area.get_switches() and area.get_valves(): z1 has a pump switch and a valve
\* with a number entity, z2 a TRV with a climate entity
Switches == [z \in Zones |-> IF z = "z1" THEN <<"switch.p1">> ELSE <<>>]
Valves == [z \in Zones |-> IF z = "z1" THEN <<"number.v1">> ELSE <<"climate.v2">>]
ValveIds == {"number.v1", "climate.v2"}
Actuators == {"climate.t1", "climate.t2", "switch.p1", GatewayId} \cup ValveIds

\* entity_id.split('.')[0]
EntityDomain(entity_id) == IF entity_id = "number.v1" THEN "number" ELSE "climate"

\* hass.states.get(valve_id): None while the entity is missing, else whether
\* its attributes hold position and temperature
ValveStates(entity_id) ==
    IF EntityDomain(entity_id) = "number"
    THEN {None, Some([position |-> FALSE, temperature |-> FALSE])}
    ELSE {None} \cup {Some([position |-> p, temperature |-> t]) : p, t \in BOOLEAN}

\* how many service calls of one pass fail
MaxFailures == 1

\* what a pass decides for an area: heat towards 20.0, nothing (inside the dead
\* band), or off (the area is disabled)
Decisions == {[kind |-> "heat", heating |-> TRUE, target |-> Some(200)],
              [kind |-> "hold", heating |-> FALSE, target |-> None],
              [kind |-> "off", heating |-> FALSE, target |-> None]}

\* _get_valve_capability(entity_id): the capabilities returned and
\* _device_capabilities afterwards.  A cached entry is returned as it is.
GetValveCapability(cache, states, entity_id) ==
    LET base == [supports_position |-> FALSE, supports_temperature |-> FALSE,
                 position_min |-> 0, position_max |-> 100,
                 entity_domain |-> EntityDomain(entity_id)]
        found == IF states[entity_id] = None THEN base
                 ELSE IF EntityDomain(entity_id) = "number"
                      THEN [base EXCEPT !.supports_position = TRUE]
                 ELSE [base EXCEPT
                          !.supports_position = Val(states[entity_id]).position,
                          !.supports_temperature = Val(states[entity_id]).temperature]
    IN IF cache[entity_id] # None
       THEN [capabilities |-> Val(cache[entity_id]), cache |-> cache]
       ELSE [capabilities |-> found,
             cache |-> [cache EXCEPT ![entity_id] = Some(found)]]

\* a service call and whether it returned (ok) or raised
ServiceCall(entity_id, service, value, failing) ==
    [entity |-> entity_id, service |-> service, value |-> value,
     ok |-> entity_id \notin failing]

\* Attempt with the exception of a failed call leaving the pass
Attempt_Propagates(log, call) ==
    IF log # <<>> /\ ~log[Len(log)].ok THEN log ELSE Append(log, call)

\* await hass.services.async_call(...) inside try / except Exception: the
\* calls of the pass so far and this one; the pass goes on whether it raised
\* or not
Attempt(log, call) == Append(log, call)

\* The temperature-control branch of _async_control_valves for one valve
ValveTemperatureCall(entity_id, heating, target_temp, failing) ==
    ServiceCall(entity_id, "climate.set_temperature",
                IF heating /\ target_temp # None
                THEN Some(Max(Val(target_temp) + DEFAULT_TRV_TEMP_OFFSET,
                              DEFAULT_TRV_HEATING_TEMP))
                ELSE Some(DEFAULT_TRV_IDLE_TEMP),
                failing)

\* One iteration of the loop of _async_control_valves: n = [log, cache] before
\* and after.  A failed call leaves the iteration through except Exception,
\* except climate.set_position, whose own handler rewrites the cached
\* capabilities and lets the temperature branch run.
ControlValve(n, states, entity_id, heating, target_temp, failing) ==
    LET g == GetValveCapability(n.cache, states, entity_id)
        c == g.capabilities
        position == IF heating THEN c.position_max ELSE c.position_min
        fallback == [c EXCEPT !.supports_position = FALSE,
                              !.supports_temperature = TRUE]
    IN IF c.supports_position /\ c.entity_domain = "number"
       THEN [log |-> Attempt(n.log, ServiceCall(entity_id, "number.set_value",
                                                Some(position), failing)),
             cache |-> g.cache]
       ELSE IF c.supports_position /\ states[entity_id] = None
       THEN [log |-> n.log, cache |-> g.cache]
       ELSE IF c.supports_position /\ Val(states[entity_id]).position
       THEN LET log1 == Attempt(n.log, ServiceCall(entity_id, "climate.set_position",
                                                   Some(position), failing))
            IN IF entity_id \in failing
               THEN [log |-> Attempt(log1, ValveTemperatureCall(entity_id, heating,
                                                               target_temp, failing)),
                     cache |-> [g.cache EXCEPT ![entity_id] = Some(fallback)]]
               ELSE [log |-> log1, cache |-> g.cache]
       ELSE IF ~c.supports_position /\ c.supports_temperature
       THEN [log |-> Attempt(n.log, ValveTemperatureCall(entity_id, heating,
                                                        target_temp, failing)),
             cache |-> g.cache]
       ELSE [log |-> n.log, cache |-> g.cache]

\* _async_set_area_heating(area, heating, target_temp) for area z: its
\* thermostat, its switches, its valves, each call in its own try / except
AreaCalls(n, states, z, decision, failing) ==
    LET c == SetAreaHeating(decision.heating, decision.target)
        log1 == Attempt(n.log, ServiceCall(Thermostat[z], Val(c.thermostat).service,
                                           Val(c.thermostat).temperature, failing))
        log2 == IF Switches[z] = <<>> THEN log1
                ELSE Attempt(log1, ServiceCall(Switches[z][1], Val(c.switch).service,
                                               None, failing))
    IN IF decision.kind = "hold" THEN n
       ELSE ControlValve([log |-> log2, cache |-> n.cache], states, Valves[z][1],
                         decision.heating, decision.target, failing)

\* The service calls of one pass over both areas and the gateway, in order, and
\* _device_capabilities afterwards
PassCalls(cache, states, decisions, failing) ==
    LET n1 == AreaCalls([log |-> <<>>, cache |-> cache], states, ZoneOrder[1],
                        decisions[ZoneOrder[1]], failing)
        n2 == AreaCalls(n1, states, ZoneOrder[2], decisions[ZoneOrder[2]], failing)
        heating_areas == {z \in Zones : decisions[z].heating}
        gateway == GatewayCommand(heating_areas # {}, IF heating_areas # {} THEN 200 ELSE 0)
    IN IF gateway = None THEN n2
       ELSE [log |-> Attempt(n2.log, ServiceCall(GatewayId, Val(gateway).service,
                                                 Val(gateway).temperature, failing)),
             cache |-> n2.cache]

ActuateInit ==
    /\ tArea = None /\ tTime = 0 /\ tResult = None /\ tBefore = None
    /\ fSchedules = <<>> /\ fCall = None
    /\ DebounceIdle /\ EngineIdle /\ PredictIdle /\ OverrideIdle
    /\ areas = None /\ passes = None /\ calls = None /\ lastPass = None
    /\ zArea = None /\ lastStep = None /\ zTracked = FALSE /\ zEvent = None
    /\ mgr = [opentherm_enabled |-> TRUE,
              opentherm_gateway_id |-> Some(GatewayId),
              frost_protection_enabled |-> FALSE,
              frost_protection_temp |-> DEFAULT_FROST_PROTECTION_TEMP,
              hysteresis |-> Hysteresis,
              learning_engine |-> FALSE]
    /\ now = 0
    /\ aStates \in [ValveIds -> UNION {ValveStates(v) : v \in ValveIds}]
    /\ \A v \in ValveIds : aStates[v] \in ValveStates(v)
    /\ aCaps = [v \in ValveIds |-> None]
    /\ aPass = None

\* A valve entity appears in hass.states, disappears or changes its attributes
ValveEntityChanges(v, st) ==
    /\ st # aStates[v]
    /\ aStates' = [aStates EXCEPT ![v] = st]
    /\ UNCHANGED <<aCaps, aPass, loopVars, zoneVars, engineVars, targetVars,
                   scheduleVars, debounceVars, predictVars, overrideVars>>

\* One pass of async_control_heating as far as its service calls go
ActuatePass ==
    /\ IF aPass = None THEN TRUE ELSE Val(aPass).n < MaxPasses
    /\ \E decisions \in [Zones -> Decisions], failing \in SUBSET Actuators :
          /\ Cardinality(failing) <= MaxFailures
          /\ \E r \in {PassCalls(aCaps, aStates, decisions, failing)} :
                /\ aCaps' = r.cache
                /\ aPass' = Some([n |-> IF aPass = None THEN 1 ELSE Val(aPass).n + 1,
                                  decisions |-> decisions,
                                  failing |-> failing,
                                  states |-> aStates,
                                  cache_before |-> aCaps,
                                  log |-> r.log])
    /\ UNCHANGED <<aStates, loopVars, zoneVars, engineVars, targetVars,
                   scheduleVars, debounceVars, predictVars, overrideVars>>

ActuateNext ==
    \/ \E v \in ValveIds : \E st \in ValveStates(v) : ValveEntityChanges(v, st)
    \/ ActuatePass

SpecActuate == ActuateInit /\ [][ActuateNext]_vars

\* The call is among the calls of the log (whether it returned or raised)
Issued(log, call) ==
    \E j \in 1..Len(log) : /\ log[j].entity = call.entity
                           /\ log[j].service = call.service
                           /\ log[j].value = call.value

\* C22: whichever service calls of a pass fail, every call the same pass makes
\* when none fails is made, to every other device of the area, to the devices
\* of the other area and to the gateway, and no call is made twice in the pass.
Thm_C22_FailureIsolated ==
    aPass # None
    => LET p == Val(aPass)
           ref == PassCalls(p.cache_before, p.states, p.decisions, {}).log
       IN /\ \A i \in 1..Len(ref) : Issued(p.log, ref[i])
          /\ \A j, k \in 1..Len(p.log) :
                (p.log[j].entity = p.log[k].entity
                 /\ p.log[j].service = p.log[k].service) => j = k

\* The call to the thermostat of z1 failed; the switch and the valve of z1, the
\* thermostat of z2 and the gateway got theirs
Wit_C22_FailureIsolated ==
    /\ aPass # None
    /\ Val(aPass).failing = {"climate.t1"}
    /\ \E j \in 1..Len(Val(aPass).log) :
          Val(aPass).log[j].entity = "climate.t1" /\ ~Val(aPass).log[j].ok
    /\ \A e \in {"switch.p1", "number.v1", "climate.t2", GatewayId} :
          \E j \in 1..Len(Val(aPass).log) :
             Val(aPass).log[j].entity = e /\ Val(aPass).log[j].ok

\* C23: a pass that commands area z1 while the entity of its valve number.v1
\* is in hass.states issues a call to the valve, also when the entity was
\* missing in an earlier pass; a pass in which the entity is missing and that
\* has no capabilities of the valve from a time it was there issues none.
Cex_C23_ValveReappears ==
    (aPass # None /\ Val(aPass).decisions["z1"].kind # "hold")
    => LET called == \E j \in 1..Len(Val(aPass).log) :
                        Val(aPass).log[j].entity = "number.v1"
       IN /\ Val(aPass).states["number.v1"] # None => called
          /\ (/\ Val(aPass).states["number.v1"] = None
              /\ Val(aPass).cache_before["number.v1"] = None) => ~called

----------------------------------------------------------------------------
(* SpecWindow: the window sensors of one area, _async_update_sensor_states and
   the effective target the pass computes after it (climate_controller.py) *)

\* The states a window sensor entity can have; None: the entity is missing
WindowSensorStates == {None, Some("on"), Some("off")}

\* state.state in ("on", "open", "true", "True")
IsOpen(state) == state \in {"on", "open", "true", "True"}

\* What hass.states.get does with a key that is not an entity id: it finds no
\* state, or it raises (the state machine is not part of this repository).
LookupOutcomes == {"returns_none", "raises"}

\* hass.states.get(sensor_id) in the loop `for sensor_id in
\* area.window_sensors`, when it returns: sensor_id is the i-th element of the
\* list, the sensor's configuration dict {entity_id, action_when_open,
\* temp_drop}, not its entity_id, and the state machine is keyed by entity
\* id.  The state the entity has is therefore never the value returned.
WindowSensorState(states, area, i) == None

\* The window part of _async_update_sensor_states for one area
UpdateSensorStates(area, states, lookup) ==
    IF Len(area.window_sensors) = 0 THEN [raised |-> FALSE, area |-> area]
    ELSE IF lookup = "raises" THEN [raised |-> TRUE, area |-> area]
    ELSE LET found == [i \in 1..Len(area.window_sensors) |->
                          WindowSensorState(states, area, i)]
             any_window_open ==
                 \E i \in 1..Len(area.window_sensors) :
                    /\ found[i] # None
                    /\ IsOpen(Val(found[i]))
         IN [raised |-> FALSE,
             area |-> [area EXCEPT !.window_is_open = any_window_open]]

\* Areas with one or two window sensors, base target 20.0, preset none or eco,
\* boost off, no schedules, night boost off, window_is_open False as
\* Area.__init__ leaves it
WindowAreas ==
    {NewArea(200, p, <<FALSE, None>>, FALSE, ws, <<>>, FALSE) :
        p \in {"none", "eco"}, ws \in WindowSensorLists \ {<<>>}}

WindowInit ==
    /\ fSchedules = <<>> /\ fCall = None
    /\ DebounceIdle /\ LoopIdle /\ EngineIdle /\ PredictIdle /\ OverrideIdle
    /\ aCaps = None /\ aPass = None
    /\ tArea \in WindowAreas
    /\ tTime = At(0, 12, 0)
    /\ tResult = None
    /\ tBefore = tArea
    /\ aStates \in [1..Len(tArea.window_sensors) -> WindowSensorStates]

\* A window is opened or closed, or its sensor entity appears or disappears
WindowSensorChange ==
    /\ \E i \in DOMAIN aStates, st \in WindowSensorStates :
          /\ st # aStates[i]
          /\ aStates' = [aStates EXCEPT ![i] = st]
    /\ tResult' = None
    /\ UNCHANGED <<tArea, tTime, tBefore, scheduleVars, debounceVars, loopVars,
                   zoneVars, engineVars, predictVars, overrideVars, aCaps, aPass>>

\* The start of a control pass: the sensor update, and when it returns the
\* effective target of the area as the per-area loop computes it
WindowPass ==
    /\ tResult = None
    /\ \E lookup \in LookupOutcomes :
       \E u \in {UpdateSensorStates(tArea, aStates, lookup)} :
          IF u.raised
          THEN /\ tResult' = Some([raised |-> TRUE, target |-> None])
               /\ tArea' = tArea
          ELSE \E r \in {EffectiveTarget(u.area, tTime, tTime)} :
                  /\ tResult' = Some([raised |-> FALSE, target |-> Some(r.target)])
                  /\ tArea' = r.area
    /\ tBefore' = tArea
    /\ UNCHANGED <<tTime, scheduleVars, debounceVars, loopVars, zoneVars,
                   engineVars, predictVars, overrideVars, actuateVars>>

WindowNext == WindowSensorChange \/ WindowPass

SpecWindow == WindowInit /\ [][WindowNext]_vars

\* What the window rule gives for sensor s of area a
WindowRuleOf(a, s) ==
    IF s.action_when_open = "turn_off" THEN WindowOpenFloor
    ELSE Max(WindowOpenFloor,
             a.target_temperature
                - (IF s.temp_drop # None THEN Val(s.temp_drop)
                   ELSE DEFAULT_WINDOW_OPEN_TEMP_DROP))

\* The sensors of the list that are open and have an action other than none
OpenActingSensors(a, states) ==
    {i \in 1..Len(a.window_sensors) :
        /\ states[i] # None
        /\ IsOpen(Val(states[i]))
        /\ a.window_sensors[i].action_when_open # "none"}

\* C32: after a pass that got past the sensor update (boost inactive), if some
\* window sensor of the area is open and has an action other than none, the
\* effective target is what the window rule gives for one of those sensors;
\* if no open sensor has such an action, the target is not a window target but
\* the one of the rest of the cascade (here the preset's, or the base target).
Cex_C32_OpenSensorDecides ==
    (/\ tResult # None
     /\ ~Val(tResult).raised)
    => LET acting == OpenActingSensors(tArea, aStates)
           rest == IF tArea.preset_mode = "none" THEN tArea.target_temperature
                   ELSE GetPresetTemperature(tArea)
       IN IF acting # {}
          THEN \E i \in acting :
                  Val(Val(tResult).target) = WindowRuleOf(tArea, tArea.window_sensors[i])
          ELSE Val(Val(tResult).target) = rest

----------------------------------------------------------------------------
(* SpecBoost: the operations that write preset_mode and boost_mode_active of
   one area (area_manager.py, __init__.py, scheduler.py) *)

\* const.PRESET_MODES, the values the set_preset_mode service accepts
PRESET_MODES == {"none", "boost"} \cup PresetNames

\* Area.set_preset_mode(preset_mode): the effective target is computed before
\* and after the assignment for the log line, and each computation checks the
\* boost expiry
SetPresetMode(a, preset_mode, wall) ==
    LET a1 == EffectiveTarget(a, wall, wall).area
        a2 == [a1 EXCEPT !.preset_mode = preset_mode]
    IN EffectiveTarget(a2, wall, wall).area

\* Mon 12:00, 12:45, 13:30
BoostInstants == {At(0, 12, 0), At(0, 12, 45), At(0, 13, 30)}

\* Mon 08:00-22:00 @ 21.0 and Mon 08:00-22:00 @ preset comfort
BoostSchedules ==
    {Schedule("b", 0, <<8, 0>>, <<22, 0>>, TRUE, Some(210), None),
     Schedule("c", 0, <<8, 0>>, <<22, 0>>, TRUE, None, Some("comfort"))}

BoostInit ==
    /\ fSchedules = <<>> /\ fCall = None
    /\ DebounceIdle /\ LoopIdle /\ EngineIdle /\ PredictIdle /\ OverrideIdle
    /\ ActuateIdle
    /\ tArea = NewArea(200, "none", <<FALSE, None>>, FALSE, <<>>, <<>>, FALSE)
    /\ tTime = At(0, 12, 0)
    /\ tResult = None
    /\ tBefore = tArea

\* The set_boost_mode service: area.set_boost_mode(duration, temp)
BoostSet ==
    /\ \E duration \in {30, 60}, temp \in {None, Some(240)} :
          tArea' = SetBoostMode(tArea, duration, temp, tTime)
    /\ tResult' = Some("set_boost_mode")
    /\ tBefore' = tArea
    /\ UNCHANGED <<tTime, scheduleVars, debounceVars, loopVars, zoneVars,
                   engineVars, predictVars, overrideVars, actuateVars>>

\* The cancel_boost service: area.cancel_boost_mode()
BoostCancel ==
    /\ tArea' = CancelBoostMode(tArea)
    /\ tResult' = Some("cancel_boost_mode")
    /\ tBefore' = tArea
    /\ UNCHANGED <<tTime, scheduleVars, debounceVars, loopVars, zoneVars,
                   engineVars, predictVars, overrideVars, actuateVars>>

\* Time passes and the boost expiry is checked (check_boost_expiry() at the
\* start of get_effective_target_temperature)
BoostExpiry ==
    /\ \E t \in BoostInstants :
          /\ t > tTime
          /\ tTime' = t
          /\ tArea' = CheckBoostExpiry(tArea, t)
    /\ tResult' = Some("check_boost_expiry")
    /\ tBefore' = tArea
    /\ UNCHANGED <<scheduleVars, debounceVars, loopVars, zoneVars,
                   engineVars, predictVars, overrideVars, actuateVars>>

\* The set_preset_mode service with a value PRESET_MODE_SCHEMA accepts
PresetSet ==
    /\ \E preset_mode \in PRESET_MODES :
          tArea' = SetPresetMode(tArea, preset_mode, tTime)
    /\ tResult' = Some("set_preset_mode")
    /\ tBefore' = tArea
    /\ UNCHANGED <<tTime, scheduleVars, debounceVars, loopVars, zoneVars,
                   engineVars, predictVars, overrideVars, actuateVars>>

\* The schedule executor applies a schedule that has become active
ScheduleApplied ==
    /\ \E schedule \in BoostSchedules :
          tArea' = ApplySchedule(tArea, schedule)
    /\ tResult' = Some("apply_schedule")
    /\ tBefore' = tArea
    /\ UNCHANGED <<tTime, scheduleVars, debounceVars, loopVars, zoneVars,
                   engineVars, predictVars, overrideVars, actuateVars>>

BoostNext ==
    BoostSet \/ BoostCancel \/ BoostExpiry \/ PresetSet \/ ScheduleApplied

SpecBoost == BoostInit /\ [][BoostNext]_vars

\* C35: after any sequence of set_boost_mode, cancel_boost_mode, boost expiry,
\* set_preset_mode and schedule application, the area's preset mode is boost
\* exactly when its boost mode is active.
Cex_C35_PresetBoostIffActive ==
    (tArea.preset_mode = "boost") <=> tArea.boost_mode_active

----------------------------------------------------------------------------
(* LearningEngine: async_predict_heating_time (learning_engine.py) *)
(* A heating rate is an integer number of hundredths of a degree per minute. *)

MIN_LEARNING_EVENTS == 20

\* The number of statistics get_last_statistics is asked for
NumberOfStats == 1

MaxEvents == 21

\* HeatingEvent.heating_rate of an event of `minutes` minutes
HeatingRate(start_temp, end_temp, minutes) ==
    IF minutes > 0 THEN ((end_temp - start_temp) * 10) \div minutes ELSE 0

\* async_end_heating_event keeps only events of at least 5 minutes that changed
\* the temperature by at least 0.1 degrees
Qualifies(start_temp, end_temp, minutes) ==
    ~(minutes < 5 \/ (end_temp - start_temp < 1 /\ start_temp - end_temp < 1))

\* get_last_statistics(hass, number_of_stats, statistic_id, True, {"mean"}):
\* the latest number_of_stats rows of the statistic
GetLastStatistics(rows, number_of_stats) ==
    IF Len(rows) <= number_of_stats THEN rows
    ELSE SubSeq(rows, Len(rows) - number_of_stats + 1, Len(rows))

\* _async_get_recent_heating_rates(area_id, days=30): the means of the rows
\* get_last_statistics returns
GetRecentHeatingRates(rows) == GetLastStatistics(rows, NumberOfStats)

RECURSIVE SumOf(_)
SumOf(q) == IF q = <<>> THEN 0 ELSE q[1] + SumOf(Tail(q))

\* The prediction with one data point as the minimum
PredictHeatingTime_MinimumOne(heating_rates, current_temp, target_temp) ==
    IF Len(heating_rates) < 1 THEN None
    ELSE IF target_temp - current_temp <= 0 \/ SumOf(heating_rates) <= 0
    THEN Some(0)
    ELSE Some(((target_temp - current_temp) * 10 * Len(heating_rates))
                 \div SumOf(heating_rates))

\* async_predict_heating_time after the rates were fetched, without a weather
\* entity: None below MIN_LEARNING_EVENTS rates, 0 when there is nothing to
\* heat or the mean rate is not positive, else int(temp_change / mean rate)
PredictHeatingTime(heating_rates, current_temp, target_temp) ==
    IF Len(heating_rates) < MIN_LEARNING_EVENTS THEN None
    ELSE IF target_temp - current_temp <= 0 \/ SumOf(heating_rates) <= 0
    THEN Some(0)
    ELSE Some(((target_temp - current_temp) * 10 * Len(heating_rates))
                 \div SumOf(heating_rates))

\* 17.0, 19.0, 21.0
PredictTemps == {170, 190, 210}

PredictInit ==
    /\ tArea = None /\ tTime = 0 /\ tResult = None /\ tBefore = None
    /\ fSchedules = <<>> /\ fCall = None
    /\ DebounceIdle /\ LoopIdle /\ EngineIdle /\ OverrideIdle /\ ActuateIdle
    /\ pStats = <<>>
    /\ pCall = None

\* async_end_heating_event for an open event that began `minutes` ago at
\* start_temp: _async_record_heating_event adds a row with the event's heating
\* rate as mean if the event qualifies.
EndHeatingEvent ==
    /\ Len(pStats) < MaxEvents
    /\ \E start_temp \in {170, 190}, end_temp \in {190}, minutes \in {3, 20} :
          pStats' = IF Qualifies(start_temp, end_temp, minutes)
                    THEN Append(pStats, HeatingRate(start_temp, end_temp, minutes))
                    ELSE pStats
    /\ UNCHANGED pCall
    /\ UNCHANGED <<targetVars, scheduleVars, debounceVars, loopVars, zoneVars,
                   engineVars, overrideVars, actuateVars>>

\* One call of async_predict_heating_time(area_id, current_temp, target_temp)
PredictCall ==
    /\ \E current_temp \in PredictTemps, target_temp \in PredictTemps :
          LET heating_rates == GetRecentHeatingRates(pStats)
          IN pCall' = Some([recorded |-> Len(pStats),
                            heating_rates |-> heating_rates,
                            current_temp |-> current_temp,
                            target_temp |-> target_temp,
                            result |-> PredictHeatingTime(heating_rates,
                                           current_temp, target_temp)])
    /\ UNCHANGED pStats
    /\ UNCHANGED <<targetVars, scheduleVars, debounceVars, loopVars, zoneVars,
                   engineVars, overrideVars, actuateVars>>

PredictNext ==
    \/ EndHeatingEvent
    \/ PredictCall

SpecPredict == PredictInit /\ [][PredictNext]_vars

\* C18: a call of async_predict_heating_time with target above current, made
\* when at least MIN_LEARNING_EVENTS qualifying heating events of the area have
\* been recorded, returns a positive number of minutes.
Cex_C18_PredictsWithEnoughEvents ==
    (/\ pCall # None
     /\ Val(pCall).recorded >= MIN_LEARNING_EVENTS
     /\ Val(pCall).target_temp > Val(pCall).current_temp)
    => /\ Val(pCall).result # None
       /\ Val(Val(pCall).result) > 0

\* C19: a call of async_predict_heating_time that gets fewer than
\* MIN_LEARNING_EVENTS heating rates returns None, whatever the current and the
\* target temperature are.
Thm_C19_NoPredictionBelowMinimum ==
    (pCall # None /\ Len(Val(pCall).heating_rates) < MIN_LEARNING_EVENTS)
    => Val(pCall).result = None

\* Three events recorded, one heating rate available, 17.0 -> 21.0: None
Wit_C19_NoPredictionBelowMinimum ==
    /\ pCall # None
    /\ Val(pCall).recorded = 3
    /\ Len(Val(pCall).heating_rates) = 1
    /\ Val(pCall).current_temp = 170
    /\ Val(pCall).target_temp = 210
    /\ Val(pCall).result = None

====
